---------------------------- MODULE Spec2Model ----------------------------
(***************************************************************************)
(* Signal-to-state inference of the dynamic narrative director:            *)
(* EEGEmotionMapper.analyzeFrequencyBands (naive DFT band power over a     *)
(* Hann-windowed sample window) and EEGEmotionMapper.mapToEmotionalState   *)
(* (two-tier rule / score classifier); and, each under a specification     *)
(* of its own, the narrative side: ResponseCache, PromptEngine's           *)
(* validateResponse, MuseConnector's mock stream, DeepSeekIntegration      *)
(* with its normalization adapter, and PerformanceMonitor.                 *)
(*                                                                         *)
(* Numbers.  The classifier works on exact rationals [n, d]; d = 0 holds   *)
(* the non-finite values of a JavaScript number (0/0 is NaN, 1/0 and -1/0  *)
(* the infinities).  The DFT works in fixed point with Scale units per 1,  *)
(* with one reserved value for NaN.  Rounding of IEEE doubles is not       *)
(* modelled.                                                               *)
(***************************************************************************)
EXTENDS Integers, Sequences, FiniteSets, TLC

VARIABLES
    pc,          \* where the caller is: "idle", "window", "profile", "state"
    source,      \* where the profile came from: "window" or "caller"
    eegSamples,  \* the caller's sample array (fixed point)
    sampleRate,  \* the caller's sample rate, Hz
    bands,       \* the FrequencyBands object the caller holds
    emotion,     \* the EmotionState last returned
    tier,        \* which branch of mapToEmotionalState returned it
    bins,        \* per band, the DFT bins the last analysis summed
    mapper,      \* the fields of the EEGEmotionMapper instance
    tasks,       \* per concurrent task, the call it is in and the call's locals
    frames,      \* per call in progress, the Float64Array it allocated
    tone,        \* the sinusoid test: its frequency and the locals of the call
    toneSamples, \* the array generateSine returned
    toneWindowed, \* the Float64Array of the band being computed
    cache,       \* ResponseCache.cache: the Map's entries in insertion order
    now,         \* Date.now()
    ticks,       \* how often the clock has been seen to advance
    got,         \* the last get, if it was the last operation: key, value, time
    stored,      \* the last set under the test context's key, and whether a
                 \* later set evicted its entry
    validation,  \* the validateResponse call: the response as given, the
                 \* response object, the template name, the value returned
    muse,        \* the MuseConnector: config, listeners, mockTimer, mockSequence
    timers,      \* the interval timers the environment holds
    timerClock,  \* the timers' clock, ms
    heard,       \* per handler, since when it is registered and the samples
                 \* it was called with; when the stream was last started
    callerContext, \* the EmotionalContext object the caller holds
    dialogueCall, \* the generateEmotionalDialogue call: the integration's
                 \* API key, the context as given and as normalized, the
                 \* requests issued, and how the promise settled
    monitor,     \* PerformanceMonitor.metrics: narrativeGeneration, apiErrors
    latestMetrics, \* RealtimeDashboard.latestMetrics
    recorded     \* the durations recordNarrativeGeneration was called with,
                 \* and the number of recordAPIError calls

vars == <<pc, source, eegSamples, sampleRate, bands, emotion, tier, bins, mapper,
          tasks, frames, tone, toneSamples, toneWindowed,
          cache, now, ticks, got, stored, validation,
          muse, timers, timerClock, heard, callerContext, dialogueCall,
          monitor, latestMetrics, recorded>>

callerVars == <<pc, source, eegSamples, sampleRate, bands, emotion, tier, bins>>

taskVars == <<tasks, frames>>

toneVars == <<tone, toneSamples, toneWindowed>>

cacheVars == <<cache, now, ticks, got, stored>>

promptVars == <<validation>>

museVars == <<muse, timers, timerClock, heard>>

deepSeekVars == <<callerContext, dialogueCall>>

monitorVars == <<monitor, latestMetrics, recorded>>

\* what the single caller's steps leave alone
exceptCaller ==
    <<taskVars, toneVars, cacheVars, promptVars, museVars, deepSeekVars, monitorVars>>

\* what the concurrent tasks' steps leave alone
exceptTasks ==
    <<callerVars, toneVars, cacheVars, promptVars, museVars, deepSeekVars, monitorVars>>

\* what the sinusoid test's steps leave alone
exceptTone ==
    <<callerVars, taskVars, cacheVars, promptVars, museVars, deepSeekVars, monitorVars>>

\* what the cache's operations leave alone
exceptCache ==
    <<callerVars, taskVars, toneVars, mapper, promptVars, museVars, deepSeekVars, monitorVars>>

\* what the steps of a validateResponse call leave alone
exceptPrompt ==
    <<callerVars, taskVars, toneVars, mapper, cacheVars, museVars, deepSeekVars, monitorVars>>

\* what the connector's operations and its timers leave alone
exceptMuse ==
    <<callerVars, taskVars, toneVars, mapper, cacheVars, promptVars, deepSeekVars, monitorVars>>

\* what the monitor's operations leave alone
exceptMonitor ==
    <<callerVars, taskVars, toneVars, mapper, cacheVars, promptVars, museVars, deepSeekVars>>

\* what the steps of a generateEmotionalDialogue call leave alone
exceptDeepSeek ==
    <<callerVars, taskVars, toneVars, mapper, cacheVars, promptVars, museVars, monitorVars>>

-----------------------------------------------------------------------------
(* Bounds of the model *)

MaxPower == 3    \* largest band power supplied directly, in 1/PowerDen
NegPower == 1    \* most negative band power supplied directly, in 1/PowerDen
PowerDen == 2    \* denominator of the band powers supplied directly
MaxN == 6        \* longest sample window

-----------------------------------------------------------------------------
(* JavaScript numbers as extended rationals *)

Abs(x) == IF x < 0 THEN -x ELSE x

Sign(x) == IF x < 0 THEN -1 ELSE IF x > 0 THEN 1 ELSE 0

RECURSIVE Gcd(_, _)
Gcd(a, b) == IF b = 0 THEN a ELSE Gcd(b, a % b)

\* n/d in lowest terms with d > 0; n/0 is NaN (n = 0) or an infinity
Rat(n, d) ==
    IF d = 0 THEN [n |-> Sign(n), d |-> 0]
    ELSE LET g == Gcd(Abs(n), Abs(d))
         IN  [n |-> Sign(d) * (n \div g), d |-> Abs(d) \div g]

RNaN == [n |-> 0, d |-> 0]
Zero == [n |-> 0, d |-> 1]
One == [n |-> 1, d |-> 1]

IsNaN(x) == x.d = 0 /\ x.n = 0
IsFinite(x) == x.d > 0

RNeg(x) == [n |-> -x.n, d |-> x.d]

RAdd(x, y) ==
    IF IsNaN(x) \/ IsNaN(y) THEN RNaN
    ELSE IF x.d = 0 /\ y.d = 0 THEN (IF x.n = y.n THEN x ELSE RNaN)
    ELSE IF x.d = 0 THEN x
    ELSE IF y.d = 0 THEN y
    ELSE LET g == Gcd(x.d, y.d)
         IN  Rat(x.n * (y.d \div g) + y.n * (x.d \div g), (x.d \div g) * y.d)

RSub(x, y) == RAdd(x, RNeg(y))

RMul(x, y) ==
    IF IsNaN(x) \/ IsNaN(y) THEN RNaN
    ELSE IF x.d = 0 \/ y.d = 0 THEN Rat(Sign(x.n) * Sign(y.n), 0)
    ELSE LET g1 == Gcd(Abs(x.n), y.d)
             g2 == Gcd(Abs(y.n), x.d)
         IN  IF x.n = 0 \/ y.n = 0 THEN Zero
             ELSE Rat((x.n \div g1) * (y.n \div g2), (x.d \div g2) * (y.d \div g1))

RDiv(x, y) ==
    IF IsNaN(x) \/ IsNaN(y) THEN RNaN
    ELSE IF y.d = 0 THEN (IF x.d = 0 THEN RNaN ELSE Zero)
    ELSE IF x.d = 0 THEN (IF y.n < 0 THEN RNeg(x) ELSE x)
    ELSE IF y.n = 0 THEN Rat(x.n, 0)
    ELSE RMul(x, [n |-> Sign(y.n) * y.d, d |-> Abs(y.n)])

\* x < y as JavaScript compares numbers: false when either is NaN
RLt(x, y) ==
    /\ ~IsNaN(x)
    /\ ~IsNaN(y)
    /\ IF x.d = 0 /\ y.d = 0 THEN x.n < y.n
       ELSE IF x.d = 0 THEN x.n < 0
       ELSE IF y.d = 0 THEN y.n > 0
       ELSE x.n * y.d < y.n * x.d

RGt(x, y) == RLt(y, x)

RLe(x, y) == ~IsNaN(x) /\ ~IsNaN(y) /\ ~RLt(y, x)

RGe(x, y) == RLe(y, x)

\* x === y
REq(x, y) == ~IsNaN(x) /\ ~IsNaN(y) /\ x = y

\* Math.min(x, y) and Math.max(x, y)
MathMin(x, y) == IF IsNaN(x) \/ IsNaN(y) THEN RNaN ELSE IF RLt(y, x) THEN y ELSE x

MathMax(x, y) == IF IsNaN(x) \/ IsNaN(y) THEN RNaN ELSE IF RLt(x, y) THEN y ELSE x

\* x || 1 : 0 and NaN are falsy
OrOne(x) == IF IsNaN(x) \/ x.n = 0 THEN One ELSE x

-----------------------------------------------------------------------------
(* EEGEmotionMapper.mapToEmotionalState *)

BandNames == <<"delta", "theta", "alpha", "beta", "gamma">>

LABELS == <<"FOCUSED_HIGH", "RELAXED_CALM", "ANXIOUS_STRESSED", "CURIOUS_INTERESTED">>

EPS == Rat(1, 1000000)

Num(p, q) == Rat(p, q)

\* total = delta + theta + alpha + beta + gamma || 1
Total(b) ==
    OrOne(RAdd(RAdd(RAdd(RAdd(b.delta, b.theta), b.alpha), b.beta), b.gamma))

\* r = { band: bands.band / total }
Fractions(b) ==
    LET total == Total(b)
    IN  [delta |-> RDiv(b.delta, total),
         theta |-> RDiv(b.theta, total),
         alpha |-> RDiv(b.alpha, total),
         beta  |-> RDiv(b.beta, total),
         gamma |-> RDiv(b.gamma, total)]

\* TierAGuard with >= for >
TierAGuard_Inclusive(r) == RGe(RAdd(r.beta, r.gamma), Num(6, 10))

\* if (r.beta + r.gamma > 0.6)
TierAGuard(r) == RGt(RAdd(r.beta, r.gamma), Num(6, 10))

\* if (r.gamma > 0.55 && r.alpha < 0.2)
AnxiousRule(r) == RGt(r.gamma, Num(55, 100)) /\ RLt(r.alpha, Num(2, 10))

\* if (r.beta >= r.gamma)
FocusedRule(r) == RGe(r.beta, r.gamma)

\* Min1 with the clamp forgotten
Min1_Unclamped(x) == x

\* Math.min(1, x)
Min1(x) == MathMin(One, x)

\* the body of the rule-based branch
TierA(r) ==
    IF AnxiousRule(r)
    THEN [primary |-> "ANXIOUS_STRESSED",
          intensity |-> Min1(RAdd(r.gamma, RMul(Num(5, 10), r.beta))),
          confidence |-> Min1(RDiv(RAdd(r.gamma, r.beta),
                                           RAdd(RAdd(r.alpha, r.theta), EPS)))]
    ELSE IF FocusedRule(r)
    THEN [primary |-> "FOCUSED_HIGH",
          intensity |-> Min1(RAdd(r.beta, RMul(Num(3, 10), r.gamma))),
          confidence |-> Min1(RDiv(RAdd(r.beta, r.gamma),
                                           RAdd(RAdd(r.alpha, r.theta), EPS)))]
    ELSE [primary |-> "CURIOUS_INTERESTED",
          intensity |-> Min1(RAdd(r.gamma, RMul(Num(3, 10), r.alpha))),
          confidence |-> Min1(RDiv(RAdd(r.gamma, r.alpha),
                                           RAdd(RAdd(r.beta, r.theta), EPS)))]

\* scores = [focusedScore, relaxedScore, anxiousScore, curiousScore]
Scores(b) ==
    << RAdd(RAdd(RMul(b.beta, Num(5, 10)), RMul(b.alpha, Num(2, 10))),
            RMul(b.gamma, Num(3, 10))),
       RSub(RAdd(RMul(b.alpha, Num(6, 10)), RMul(b.theta, Num(3, 10))),
            RMul(b.beta, Num(2, 10))),
       RAdd(RSub(RMul(b.beta, Num(6, 10)), RMul(b.alpha, Num(3, 10))),
            RMul(b.gamma, Num(2, 10))),
       RAdd(RAdd(RMul(b.gamma, Num(5, 10)), RMul(b.alpha, Num(3, 10))),
            RMul(b.theta, Num(2, 10))) >>

\* MaxScore that leaves the last score out
MaxScore_DropsLast(scores) == MathMax(MathMax(scores[1], scores[2]), scores[3])

\* Math.max(...scores)
MaxScore(scores) ==
    MathMax(MathMax(MathMax(scores[1], scores[2]), scores[3]), scores[4])

\* ScoreSum that guards a negative sum as well as a zero one
ScoreSum_GuardsNegative(scores) ==
    LET sum == RAdd(RAdd(RAdd(RAdd(Zero, scores[1]), scores[2]), scores[3]), scores[4])
    IN  IF IsNaN(sum) \/ sum.n <= 0 THEN One ELSE sum

\* ScoreSum with the || 1 guard forgotten
ScoreSum_Unguarded(scores) ==
    RAdd(RAdd(RAdd(RAdd(Zero, scores[1]), scores[2]), scores[3]), scores[4])

\* scores.reduce((a, b) => a + b, 0) || 1
ScoreSum(scores) ==
    OrOne(RAdd(RAdd(RAdd(RAdd(Zero, scores[1]), scores[2]), scores[3]), scores[4]))

\* IndexOf as lastIndexOf
IndexOf_Last(scores, max) ==
    IF \E i \in 1..Len(scores) : REq(scores[i], max)
    THEN CHOOSE i \in 1..Len(scores) :
            /\ REq(scores[i], max)
            /\ \A j \in (i + 1)..Len(scores) : ~REq(scores[j], max)
    ELSE 0

\* scores.indexOf(max), 1-based; 0 when no element === max
IndexOf(scores, max) ==
    IF \E i \in 1..Len(scores) : REq(scores[i], max)
    THEN CHOOSE i \in 1..Len(scores) :
            /\ REq(scores[i], max)
            /\ \A j \in 1..(i - 1) : ~REq(scores[j], max)
    ELSE 0

\* TierB with the intensity clamped below at 0 as well
TierB_ClampsLow(b) ==
    LET scores == Scores(b)
        max == MaxScore(scores)
        sum == ScoreSum(scores)
        idx == IndexOf(scores, max)
    IN  [primary |-> IF idx = 0 THEN "undefined" ELSE LABELS[idx],
         intensity |-> MathMax(Zero, Min1(max)),
         confidence |-> Min1(RDiv(max, sum))]

\* the weighted scoring fallback
TierB(b) ==
    LET scores == Scores(b)
        max == MaxScore(scores)
        sum == ScoreSum(scores)
        idx == IndexOf(scores, max)
    IN  [primary |-> IF idx = 0 THEN "undefined" ELSE LABELS[idx],
         intensity |-> Min1(max),
         confidence |-> Min1(RDiv(max, sum))]

\* The call: the EmotionState returned, the branch that returned it, and
\* what the call leaves in the profile object and in the mapper's fields.
mapToEmotionalState(b) ==
    LET r == Fractions(b)
    IN  [state |-> IF TierAGuard(r) THEN TierA(r) ELSE TierB(b),
         tier |-> IF TierAGuard(r) THEN "A" ELSE "B",
         bands |-> b,
         self |-> mapper]

-----------------------------------------------------------------------------
(* Fixed-point numbers of the DFT: integers in units of 1/Scale, and FNaN *)

Scale == 10 * 10

FNaN == 0 - 2000000000

\* n / d rounded to the nearest integer, d > 0
RoundDiv(n, d) == (2 * n + d) \div (2 * d)

FAdd(a, b) == IF a = FNaN \/ b = FNaN THEN FNaN ELSE a + b

FSub(a, b) == IF a = FNaN \/ b = FNaN THEN FNaN ELSE a - b

FMul(a, b) == IF a = FNaN \/ b = FNaN THEN FNaN ELSE RoundDiv(a * b, Scale)

\* a / m for an integer m > 0
FDivInt(a, m) == IF a = FNaN THEN FNaN ELSE RoundDiv(a, m)

\* the largest s with s * s <= t, for t >= 0
ISqrt(t) == CHOOSE s \in 0..t : s * s <= t /\ (s + 1) * (s + 1) > t

\* a * a in units of 1/(Scale * Scale)
FSqr(a) == IF a = FNaN THEN FNaN ELSE a * a

\* Math.sqrt of a number held in units of 1/(Scale * Scale), in units of
\* 1/Scale: NaN for NaN and for a negative number
MathSqrt(a) ==
    IF a = FNaN \/ a < 0 THEN FNaN ELSE ISqrt(a)

\* Trigonometry in units of 1/Trig, by Taylor series on [0, pi/4]
Trig == 100 * 100

TwoPi == 62832

\* the angle 2*pi*p/q in units of 1/Trig, for 0 <= 8p <= q
Angle(p, q) == RoundDiv(TwoPi * p, q)

CosSeries(x) ==
    LET x2 == RoundDiv(x * x, Trig)
        x4 == RoundDiv(x2 * x2, Trig)
        x6 == RoundDiv(x4 * x2, Trig)
    IN  Trig - RoundDiv(x2, 2) + RoundDiv(x4, 24) - RoundDiv(x6, 720)

SinSeries(x) ==
    LET x2 == RoundDiv(x * x, Trig)
        x3 == RoundDiv(x2 * x, Trig)
        x5 == RoundDiv(x3 * x2, Trig)
        x7 == RoundDiv(x5 * x2, Trig)
    IN  x - RoundDiv(x3, 6) + RoundDiv(x5, 120) - RoundDiv(x7, 5040)

\* cos(2*pi*p/q) for 0 <= 4p <= q
CosFirstQuadrant(p, q) ==
    IF 8 * p <= q THEN CosSeries(Angle(p, q))
    ELSE SinSeries(Angle(q - 4 * p, 4 * q))

\* cos(2*pi*p/q) for 0 <= 2p <= q
CosHalfTurn(p, q) ==
    IF 4 * p <= q THEN CosFirstQuadrant(p, q)
    ELSE -CosFirstQuadrant(q - 2 * p, 2 * q)

\* Math.cos(2*pi*p/q) in units of 1/Scale; p/0 is NaN or an infinity, whose
\* cosine is NaN
MathCos(p, q) ==
    IF q = 0 THEN FNaN
    ELSE LET a == Abs(q)
             m == p % a
             h == IF 2 * m > a THEN a - m ELSE m
         IN  RoundDiv(CosHalfTurn(h, a) * Scale, Trig)

\* Math.sin(x) = Math.cos(x - pi/2)
MathSin(p, q) == IF q = 0 THEN FNaN ELSE MathCos(4 * p - Abs(q) * Sign(q), 4 * q)

-----------------------------------------------------------------------------
(* EEGEmotionMapper.analyzeFrequencyBands *)

BAND_RANGES ==
    [delta |-> <<Num(1, 2), Num(4, 1)>>,
     theta |-> <<Num(4, 1), Num(8, 1)>>,
     alpha |-> <<Num(8, 1), Num(13, 1)>>,
     beta  |-> <<Num(13, 1), Num(30, 1)>>,
     gamma |-> <<Num(30, 1), Num(100, 1)>>]

\* Math.floor
MathFloor(x) == IF x.d = 0 THEN x ELSE Rat(x.n \div x.d, 1)

\* w = 0.5 * (1 - Math.cos((2 * Math.PI * n) / (N - 1))), n counted from 0
HannWeight(n, N) == FMul(Scale \div 2, FSub(Scale, MathCos(n, N - 1)))

\* HannWindow that scales the caller's array in place
HannWindow_InPlace(samples) ==
    [windowed |-> [i \in 1..Len(samples) |->
                      FMul(samples[i], HannWeight(i - 1, Len(samples)))],
     samples |-> [i \in 1..Len(samples) |->
                      FMul(samples[i], HannWeight(i - 1, Len(samples)))]]

\* The windowing loop: the private Float64Array it fills, and the caller's
\* array as the loop leaves it.
HannWindow(samples) ==
    [windowed |-> [i \in 1..Len(samples) |->
                      FMul(samples[i], HannWeight(i - 1, Len(samples)))],
     samples |-> samples]

\* FPerBin with the quotient inverted
FPerBin_Inverted(rate, N) == RDiv(Rat(N, 1), rate)

\* fPerBin = sampleRate / N
FPerBin(rate, N) == RDiv(rate, Rat(N, 1))

\* kStart = Math.max(1, Math.floor(lowHz / fPerBin))
KStart(lowHz, fPerBin) == MathMax(One, MathFloor(RDiv(lowHz, fPerBin)))

\* KEnd without the limit at N / 2
KEnd_NoNyquist(highHz, fPerBin, N) == MathFloor(RDiv(highHz, fPerBin))

\* kEnd = Math.min(Math.floor(highHz / fPerBin), Math.floor(N / 2))
KEnd(highHz, fPerBin, N) ==
    MathMin(MathFloor(RDiv(highHz, fPerBin)), MathFloor(Rat(N, 2)))

\* LoopBins with the loop run as k < kEnd
LoopBins_HalfOpen(kStart, kEnd) ==
    IF IsFinite(kStart) /\ IsFinite(kEnd) THEN kStart.n .. (kEnd.n - 1) ELSE {}

\* the bins k = kStart; k <= kEnd; k++ visits
LoopBins(kStart, kEnd) ==
    IF IsFinite(kStart) /\ IsFinite(kEnd) THEN kStart.n .. kEnd.n ELSE {}

RECURSIVE Re(_, _, _, _)
\* re += windowed[n] * Math.cos(angle), over the samples lo..hi; the sum of
\* integers does not depend on the order, so it is taken by halves
Re(windowed, k, lo, hi) ==
    IF lo > hi THEN 0
    ELSE IF lo = hi
    THEN FMul(windowed[lo], MathCos(k * (lo - 1), Len(windowed)))
    ELSE CHOOSE re \in
            { FAdd(a, b) : a \in {Re(windowed, k, lo, (lo + hi) \div 2)},
                           b \in {Re(windowed, k, (lo + hi) \div 2 + 1, hi)} } : TRUE

RECURSIVE Im(_, _, _, _)
\* im -= windowed[n] * Math.sin(angle), over the samples lo..hi
Im(windowed, k, lo, hi) ==
    IF lo > hi THEN 0
    ELSE IF lo = hi
    THEN FSub(0, FMul(windowed[lo], MathSin(k * (lo - 1), Len(windowed))))
    ELSE CHOOSE im \in
            { FAdd(a, b) : a \in {Im(windowed, k, lo, (lo + hi) \div 2)},
                           b \in {Im(windowed, k, (lo + hi) \div 2 + 1, hi)} } : TRUE

\* mag2 = (re * re + im * im) / (N * N), in units of 1/(Scale * Scale)
Mag2(windowed, k) ==
    CHOOSE mag2 \in
        { FDivInt(FAdd(FSqr(re), FSqr(im)), Len(windowed) * Len(windowed)) :
             re \in {Re(windowed, k, 1, Len(windowed))},
             im \in {Im(windowed, k, 1, Len(windowed))} } : TRUE

RECURSIVE PowerSum(_, _, _)
\* powerSum over the bins lo..hi
PowerSum(windowed, lo, hi) ==
    IF hi < lo THEN 0
    ELSE CHOOSE powerSum \in
            { FAdd(a, b) : a \in {PowerSum(windowed, lo, hi - 1)},
                           b \in {Mag2(windowed, hi)} } : TRUE

\* if (N === 0 || sampleRate <= 0 || highHz <= lowHz) return 0
NoSignal(N, rate, lowHz, highHz) == N = 0 \/ RLe(rate, Zero) \/ RLe(highHz, lowHz)

\* The call from fPerBin on, over the windowed copy: the power returned and
\* the bins summed.
BinsPower(windowed, rate, lowHz, highHz) ==
    LET N == Len(windowed)
        fPerBin == FPerBin(rate, N)
        kStart == KStart(lowHz, fPerBin)
        kEnd == KEnd(highHz, fPerBin, N)
        loop == LoopBins(kStart, kEnd)
        binCount == Cardinality(loop)
        powerSum == IF loop = {} THEN 0 ELSE PowerSum(windowed, kStart.n, kEnd.n)
        avgPower == FDivInt(powerSum, IF binCount > 1 THEN binCount ELSE 1)
    IN  IF RLe(kEnd, kStart)
        THEN [power |-> 0, bins |-> {}]
        ELSE [power |-> MathSqrt(avgPower), bins |-> loop]

\* One call: the power returned, the bins summed and the caller's array
\* as the call leaves it.
calculateBandPower(samples, rate, lowHz, highHz) ==
    IF NoSignal(Len(samples), rate, lowHz, highHz)
    THEN [power |-> 0, bins |-> {}, samples |-> samples]
    ELSE CHOOSE call \in UNION
            { { [power |-> rest.power, bins |-> rest.bins, samples |-> hann.samples] :
                   rest \in {BinsPower(hann.windowed, rate, lowHz, highHz)} } :
                 hann \in {HannWindow(samples)} } : TRUE

\* a fixed-point number as a JavaScript number
ToNumber(v) == IF v = FNaN THEN RNaN ELSE Rat(v, Scale)

RECURSIVE ForEachBand(_, _, _, _)
\* Object.keys(BAND_RANGES).forEach from the i-th key on: acc holds the
\* bands filled so far, samples the caller's array as the calls before left it
ForEachBand(i, samples, rate, acc) ==
    IF i > Len(BandNames)
    THEN [bands |-> acc.bands, bins |-> acc.bins, eegSamples |-> samples]
    ELSE CHOOSE done \in
            { ForEachBand(i + 1, call.samples, rate,
                          [bands |-> [acc.bands EXCEPT ![BandNames[i]] = ToNumber(call.power)],
                           bins |-> [acc.bins EXCEPT ![BandNames[i]] = call.bins]]) :
                 call \in { calculateBandPower(samples, rate,
                                               BAND_RANGES[BandNames[i]][1],
                                               BAND_RANGES[BandNames[i]][2]) } } : TRUE

\* The call: the profile returned, per band the bins summed, and what the
\* call leaves in the caller's array and in the mapper's fields.  A band
\* forEach does not reach stays undefined (here NaN).
analyzeFrequencyBands(samples, rate) ==
    LET done == ForEachBand(1, samples, rate,
                            [bands |-> [b \in DOMAIN BAND_RANGES |-> RNaN],
                             bins |-> [b \in DOMAIN BAND_RANGES |-> {}]])
    IN  [bands |-> done.bands,
         bins |-> done.bins,
         eegSamples |-> done.eegSamples,
         self |-> mapper]

-----------------------------------------------------------------------------
(* The caller: supplies a window to analyse or a profile to classify *)

SampleVals == {-Scale, 0, Scale}

Rates == {-8, 0, 8, 24, 64}

Windows == UNION {[1..n -> SampleVals] : n \in 0..MaxN}

PowerVals == {Rat(i, PowerDen) : i \in (0 - NegPower)..MaxPower}

Profiles == [{"delta", "theta", "alpha", "beta", "gamma"} -> PowerVals]

ZeroProfile == [delta |-> Zero, theta |-> Zero, alpha |-> Zero, beta |-> Zero, gamma |-> Zero]

NoBins == [delta |-> {}, theta |-> {}, alpha |-> {}, beta |-> {}, gamma |-> {}]

NoEmotion == [primary |-> "none", intensity |-> Zero, confidence |-> Zero]

\* Bounds of the concurrent tasks
NumTasks == 2    \* tasks calling the mapper at once

TaskIds == 1..NumTasks

UndefinedBands == [b \in {"delta", "theta", "alpha", "beta", "gamma"} |-> RNaN]

IdleTask ==
    [op |-> "none", pc |-> "idle", samples |-> <<>>, rate |-> Zero,
     profile |-> ZeroProfile, band |-> 0, out |-> UndefinedBands,
     r |-> ZeroProfile, state |-> NoEmotion, overlap |-> FALSE]

TasksAtRest ==
    /\ tasks = [t \in TaskIds |-> IdleTask]
    /\ frames = [t \in TaskIds |-> <<>>]

IdleTone ==
    [freq |-> 0, pc |-> "idle", band |-> 0, k |-> 0, kEnd |-> 0,
     powerSum |-> 0, binCount |-> 0, out |-> UndefinedBands]

ToneAtRest ==
    /\ tone = IdleTone
    /\ toneSamples = <<>>
    /\ toneWindowed = <<>>

\* no get and no findSimilarResponses has just returned
NoGet == [key |-> <<>>, value |-> "null", at |-> 0, findKey |-> <<>>, similar |-> <<>>]

\* hitAt: the time of the last get that returned the response of the last
\* set, -1 when there was none
NothingStored ==
    [set |-> FALSE, response |-> "null", at |-> 0, evicted |-> FALSE, hitAt |-> -1]

\* new ResponseCache()
CacheAtRest ==
    /\ cache = <<>>
    /\ now = 0
    /\ ticks = 0
    /\ got = NoGet
    /\ stored = NothingStored

\* a response field that is not there
Absent == [type |-> "absent", v |-> ""]

ResponseKeys == {"dialogue", "emotionalTone", "tone", "narrativeImpact", "characterConsistency"}

\* no validateResponse call is in progress
NotValidating ==
    [pc |-> "idle",
     given |-> [isObject |-> FALSE, fields |-> [k \in ResponseKeys |-> Absent]],
     response |-> [isObject |-> FALSE, fields |-> [k \in ResponseKeys |-> Absent]],
     templateName |-> "",
     result |-> FALSE]

PromptAtRest == validation = NotValidating

\* mockTimer = null
NullTimer == 0

Handlers == {"h1", "h2"}

\* no connector has been constructed
NoConnector ==
    [constructed |-> FALSE,
     config |-> [enableMock |-> FALSE, mockSampleRate |-> 256, mockChannels |-> 4],
     listeners |-> {},
     mockTimer |-> NullTimer,
     mockSequence |-> 0]

\* no handler is registered or has been called, no stream was started, and
\* none of startMockStream, stopMockStream and disconnect has been called
NothingHeard ==
    [since |-> [h \in Handlers |-> -1],
     samples |-> [h \in Handlers |-> <<>>],
     startedAt |-> -1,
     lastCall |-> "none"]

MuseAtRest ==
    /\ muse = NoConnector
    /\ timers = {}
    /\ timerClock = 0
    /\ heard = NothingHeard

\* A JavaScript value: its kind, and the content of that kind (the other
\* contents are empty)
JsUndefined ==
    [type |-> "undefined", str |-> <<>>, num |-> [n |-> 0, d |-> 0], bool |-> FALSE,
     entries |-> <<>>]

JsNull == [JsUndefined EXCEPT !.type = "null"]

JsString(str) == [JsUndefined EXCEPT !.type = "string", !.str = str]

JsNumber(x) == [JsUndefined EXCEPT !.type = "number", !.num = x]

JsBoolean(b) == [JsUndefined EXCEPT !.type = "boolean", !.bool = b]

JsObject(entries) == [JsUndefined EXCEPT !.type = "object", !.entries = entries]

\* a NarrativeResponse object; optionalFields is undefined when absent
Response(text, mood, effect, optionalFields) ==
    [dialogue |-> text, tone |-> mood, impact |-> effect,
     optionalFields |-> optionalFields]

\* the response a call that threw leaves
NoResponse == Response(JsUndefined, JsUndefined, JsUndefined, JsUndefined)

\* the caller holds no context
NoContext ==
    [emotion |-> [primary |-> <<>>, intensity |-> JsUndefined],
     storyContext |-> <<>>,
     optionalFields |-> JsUndefined]

\* the JSON of no reply
NoReply ==
    [isNull |-> FALSE, content |-> JsUndefined, tone |-> JsUndefined,
     impact |-> JsUndefined, metadata |-> JsUndefined, confidence |-> JsUndefined,
     suggestions |-> JsUndefined]

\* no generateEmotionalDialogue call is in progress
NoDialogue ==
    [pc |-> "idle",
     apiKey |-> FALSE,
     given |-> NoContext,
     normalized |-> NoContext,
     requests |-> 0,
     failure |-> "none",
     reply |-> NoReply,
     fellBack |-> FALSE,
     settled |-> "pending",
     response |-> NoResponse]

DeepSeekAtRest ==
    /\ callerContext = NoContext
    /\ dialogueCall = NoDialogue

\* initializeMetrics: narrativeGeneration as initialised; apiErrors, which
\* initializeMetrics does not create, undefined.  emotionDetection and
\* system, which no operation modelled reads, are left out.
initializeMetrics ==
    [narrativeGeneration |->
        [count |-> 0, totalTime |-> 0, averageTime |-> [n |-> 0, d |-> 1],
         lastTime |-> 0, apiCalls |-> 0, cacheHits |-> 0],
     apiErrors |-> [defined |-> FALSE, count |-> 0]]

\* an update, or the dashboard's metrics, without apiErrors
NoApiErrors == [present |-> FALSE, type |-> "", timestamp |-> 0, count |-> 0]

\* latestMetrics = {}.  narrativeGeneration, when TRUE, is the monitor's
\* metrics.narrativeGeneration object itself.
NothingPublished == [narrativeGeneration |-> FALSE, apiErrors |-> NoApiErrors]

NothingRecorded == [durations |-> <<>>, errors |-> 0]

\* new PerformanceMonitor(), and the dashboard of the module
MonitorAtRest ==
    /\ monitor = initializeMetrics
    /\ latestMetrics = NothingPublished
    /\ recorded = NothingRecorded

Init ==
    /\ MonitorAtRest
    /\ DeepSeekAtRest
    /\ TasksAtRest
    /\ ToneAtRest
    /\ CacheAtRest
    /\ PromptAtRest
    /\ MuseAtRest
    /\ pc = "idle"
    /\ source = "none"
    /\ eegSamples = <<>>
    /\ sampleRate = Zero
    /\ bands = ZeroProfile
    /\ emotion = NoEmotion
    /\ tier = "none"
    /\ bins = NoBins
    /\ mapper = <<>>

\* the streaming collaborator hands over a window and its sample rate
SupplyWindow ==
    /\ pc = "idle"
    /\ \E w \in Windows, rate \in Rates :
          /\ eegSamples' = w
          /\ sampleRate' = Rat(rate, 1)
    /\ pc' = "window"
    /\ source' = "window"
    /\ UNCHANGED <<bands, emotion, tier, bins, mapper>>
    /\ UNCHANGED exceptCaller

\* bands = mapper.analyzeFrequencyBands(eegSamples, sampleRate)
Analyze ==
    /\ pc = "window"
    /\ \E call \in {analyzeFrequencyBands(eegSamples, sampleRate)} :
           /\ bands' = call.bands
           /\ bins' = call.bins
           /\ eegSamples' = call.eegSamples
           /\ mapper' = call.self
    /\ pc' = "profile"
    /\ UNCHANGED <<source, sampleRate, emotion, tier>>
    /\ UNCHANGED exceptCaller

\* a caller classifies a profile of its own
SupplyProfile ==
    /\ pc = "idle"
    /\ \E p \in Profiles : bands' = p
    /\ pc' = "profile"
    /\ source' = "caller"
    /\ UNCHANGED <<eegSamples, sampleRate, emotion, tier, bins, mapper>>
    /\ UNCHANGED exceptCaller

\* emotion = mapper.mapToEmotionalState(bands)
Classify ==
    /\ pc = "profile"
    /\ \E call \in {mapToEmotionalState(bands)} :
           /\ emotion' = call.state
           /\ tier' = call.tier
           /\ bands' = call.bands
           /\ mapper' = call.self
    /\ pc' = "state"
    /\ UNCHANGED <<source, eegSamples, sampleRate, bins>>
    /\ UNCHANGED exceptCaller

\* the caller drops the window, the profile and the state
Release ==
    /\ pc = "state"
    /\ pc' = "idle"
    /\ source' = "none"
    /\ eegSamples' = <<>>
    /\ sampleRate' = Zero
    /\ bands' = ZeroProfile
    /\ emotion' = NoEmotion
    /\ tier' = "none"
    /\ bins' = NoBins
    /\ UNCHANGED mapper
    /\ UNCHANGED exceptCaller

Next == SupplyWindow \/ Analyze \/ SupplyProfile \/ Classify \/ Release

Spec == Init /\ [][Next]_vars

TypeOK ==
    /\ pc \in {"idle", "window", "profile", "state"}
    /\ tier \in {"none", "A", "B"}
    /\ source \in {"none", "window", "caller"}
    /\ mapper = <<>>

-----------------------------------------------------------------------------
(* Properties of mapToEmotionalState *)

\* a finite number in [0, 1]
InUnit(x) == x.d > 0 /\ 0 <= x.n /\ x.n <= x.d

NonNegative(b) == \A k \in DOMAIN b : b[k].d > 0 /\ b[k].n >= 0

Classified == pc = "state"

\* C1: for every profile whose five powers are each >= 0, the state returned
\* has intensity in [0,1] and confidence in [0,1], on Tier A and on Tier B
C1_IntensityConfidenceInUnit ==
    (Classified /\ NonNegative(bands)) =>
        InUnit(emotion.intensity) /\ InUnit(emotion.confidence)

\* a non-negative profile classified on Tier A whose raw confidence exceeds 1
C1_Witness ==
    /\ Classified
    /\ NonNegative(bands)
    /\ tier = "A"
    /\ emotion.confidence = One
    /\ RLt(Zero, emotion.intensity)
    /\ RLt(emotion.intensity, One)

\* C4: the all-zero profile does not take Tier A, all four Tier B scores
\* tie at 0, and the label returned is FOCUSED_HIGH
C4_ZeroProfileFocused ==
    (Classified /\ bands = ZeroProfile) =>
        /\ tier = "B"
        /\ \A i \in 1..4 : Scores(bands)[i] = Zero
        /\ emotion.primary = "FOCUSED_HIGH"
        /\ IsFinite(emotion.intensity)
        /\ IsFinite(emotion.confidence)

\* the all-zero profile a caller supplied, classified
C4_Witness ==
    /\ Classified
    /\ source = "caller"
    /\ bands = ZeroProfile
    /\ emotion.primary = "FOCUSED_HIGH"

\* the band fractions as the claims state them: power over the sum of the
\* five, the sum taken as 1 when it is 0
SumOfBands(b) == RAdd(RAdd(RAdd(RAdd(b.delta, b.theta), b.alpha), b.beta), b.gamma)

FractionOf(b, k) ==
    RDiv(b[k], IF SumOfBands(b) = Zero THEN One ELSE SumOfBands(b))

\* min(1, x) for a finite x
MinOne(x) == IF x.n > x.d THEN One ELSE x

\* the Tier A state the specification prescribes for the fractions
TierAExpected(ra, rb, rg, rt) ==
    IF RGt(rg, Rat(55, 100)) /\ RLt(ra, Rat(1, 5))
    THEN [primary |-> "ANXIOUS_STRESSED",
          intensity |-> MinOne(RAdd(rg, RMul(Rat(1, 2), rb))),
          confidence |-> MinOne(RDiv(RAdd(rg, rb), RAdd(RAdd(ra, rt), Rat(1, 1000000))))]
    ELSE IF RGe(rb, rg)
    THEN [primary |-> "FOCUSED_HIGH",
          intensity |-> MinOne(RAdd(rb, RMul(Rat(3, 10), rg))),
          confidence |-> MinOne(RDiv(RAdd(rb, rg), RAdd(RAdd(ra, rt), Rat(1, 1000000))))]
    ELSE [primary |-> "CURIOUS_INTERESTED",
          intensity |-> MinOne(RAdd(rg, RMul(Rat(3, 10), ra))),
          confidence |-> MinOne(RDiv(RAdd(rg, ra), RAdd(RAdd(rb, rt), Rat(1, 1000000))))]

\* C6: Tier A is used exactly when r.beta + r.gamma > 0.6, and then the
\* state is the one the three Tier A rules give, in their order
C6_TierARules ==
    Classified =>
        /\ tier = "A" <=>
              RGt(RAdd(FractionOf(bands, "beta"), FractionOf(bands, "gamma")), Rat(3, 5))
        /\ tier = "A" =>
              emotion = TierAExpected(FractionOf(bands, "alpha"), FractionOf(bands, "beta"),
                                      FractionOf(bands, "gamma"), FractionOf(bands, "theta"))

\* a Tier A state of the third rule: gamma above beta, not anxious
C6_Witness ==
    /\ Classified
    /\ tier = "A"
    /\ emotion.primary = "CURIOUS_INTERESTED"
    /\ RLt(emotion.confidence, One)

\* the four Tier B scores from the raw band powers, in tenths
ScoreTenths(b) ==
    << RAdd(RAdd(RMul(Rat(5, 1), b.beta), RMul(Rat(2, 1), b.alpha)), RMul(Rat(3, 1), b.gamma)),
       RSub(RAdd(RMul(Rat(6, 1), b.alpha), RMul(Rat(3, 1), b.theta)), RMul(Rat(2, 1), b.beta)),
       RAdd(RSub(RMul(Rat(6, 1), b.beta), RMul(Rat(3, 1), b.alpha)), RMul(Rat(2, 1), b.gamma)),
       RAdd(RAdd(RMul(Rat(5, 1), b.gamma), RMul(Rat(3, 1), b.alpha)), RMul(Rat(2, 1), b.theta)) >>

LabelIndex(l) == CHOOSE i \in 1..4 : LABELS[i] = l

\* C7: in Tier B the label returned has the maximal score, and of the
\* labels with the maximal score it is the first in the order FOCUSED_HIGH,
\* RELAXED_CALM, ANXIOUS_STRESSED, CURIOUS_INTERESTED
C7_TierBFirstMaximal ==
    (Classified /\ tier = "B") =>
        /\ emotion.primary \in {LABELS[i] : i \in 1..4}
        /\ LET s == ScoreTenths(bands)
               w == LabelIndex(emotion.primary)
           IN  /\ \A i \in 1..4 : RLe(s[i], s[w])
               /\ \A i \in 1..(w - 1) : RLt(s[i], s[w])

\* a Tier B state of a non-zero profile in which two labels share the
\* maximal score
C7_Witness ==
    /\ Classified
    /\ tier = "B"
    /\ bands # ZeroProfile
    /\ LET s == ScoreTenths(bands)
           w == LabelIndex(emotion.primary)
       IN  \E j \in (w + 1)..4 : s[j] = s[w]

\* the sum of the four Tier B scores, and the largest of them
SumOfScores(b) ==
    RMul(Rat(1, 10), RAdd(RAdd(RAdd(ScoreTenths(b)[1], ScoreTenths(b)[2]),
                               ScoreTenths(b)[3]), ScoreTenths(b)[4]))

LargestScore(b) ==
    RMul(Rat(1, 10), CHOOSE m \in {ScoreTenths(b)[i] : i \in 1..4} :
                        \A i \in 1..4 : RLe(ScoreTenths(b)[i], m))

-----------------------------------------------------------------------------
(* Properties of analyzeFrequencyBands *)

Analysed == source = "window" /\ pc \in {"profile", "state"}

FiveBands == {"delta", "theta", "alpha", "beta", "gamma"}

\* C2: for every window and sample rate the profile returned holds all
\* five bands, each a finite number >= 0, also for a window of one sample,
\* whose Hann weight is 0/0
C2_FiveFiniteNonNegativeBands ==
    Analysed =>
        /\ DOMAIN bands = FiveBands
        /\ \A b \in FiveBands : bands[b].d > 0 /\ bands[b].n >= 0

\* a window of one sample at a positive rate, analysed: its windowed
\* sample is NaN
C2_Witness ==
    /\ Analysed
    /\ Len(eegSamples) = 1
    /\ sampleRate.n > 0
    /\ HannWindow(eegSamples).windowed[1] = FNaN

ValidEmotionState(e) ==
    /\ e.primary \in {"FOCUSED_HIGH", "RELAXED_CALM", "ANXIOUS_STRESSED", "CURIOUS_INTERESTED"}
    /\ InUnit(e.intensity)
    /\ InUnit(e.confidence)

\* C3: an empty window or a sample rate <= 0 gives a profile whose five
\* powers are exactly 0, and that profile classifies to a valid EmotionState
C3_NoSignalZeroProfile ==
    (Analysed /\ (Len(eegSamples) = 0 \/ sampleRate.n <= 0)) =>
        /\ \A b \in FiveBands : bands[b] = Zero
        /\ Classified => ValidEmotionState(emotion)

\* a non-empty window at a negative sample rate, analysed and classified
C3_Witness ==
    /\ Analysed
    /\ Classified
    /\ Len(eegSamples) > 0
    /\ sampleRate.n < 0
    /\ bands = ZeroProfile

\* the frequency of bin k of the window analysed, k * sampleRate / N
BinFrequency(k) == RMul(Rat(k, 1), RDiv(sampleRate, Rat(Len(eegSamples), 1)))

\* C9: no bin is summed into the power of more than one band in one call,
\* and a bin whose frequency equals a band's upper bound is not counted in
\* that band
C9_BinsDisjointHalfOpen ==
    Analysed =>
        /\ \A b1, b2 \in FiveBands : b1 # b2 => bins[b1] \cap bins[b2] = {}
        /\ \A b \in FiveBands : \A k \in bins[b] : BinFrequency(k) # BAND_RANGES[b][2]

\* C10: analyzeFrequencyBands leaves the caller's sample array as it was,
\* mapToEmotionalState leaves the profile as it was, and neither leaves
\* anything in the mapper
C10_CallsLeaveInputsAndMapper ==
    [][/\ pc = "window" => eegSamples' = eegSamples /\ mapper' = mapper
       /\ pc = "profile" => bands' = bands /\ mapper' = mapper
       /\ mapper' = <<>>]_vars

\* a window whose Hann-windowed copy differs from it, analysed to a non-zero
\* profile and classified
C10_Witness ==
    /\ Analysed
    /\ Classified
    /\ bands # ZeroProfile
    /\ HannWindow(eegSamples).windowed # eegSamples

\* floor(hz / (sampleRate / N)) for a band bound hz and the window analysed,
\* in integers: floor(hz.n * N * rate.d / (hz.d * rate.n)), the rate positive
FloorBin(hz) ==
    (hz.n * Len(eegSamples) * sampleRate.d) \div (hz.d * sampleRate.n)

\* kStart = max(1, floor(low / fPerBin)) of a band, as the claim states it
StatedKStart(b) ==
    IF FloorBin(BAND_RANGES[b][1]) > 1 THEN FloorBin(BAND_RANGES[b][1]) ELSE 1

\* kEnd = min(floor(high / fPerBin), floor(N/2)) of a band, as the claim
\* states it
StatedKEnd(b) ==
    IF FloorBin(BAND_RANGES[b][2]) < Len(eegSamples) \div 2
    THEN FloorBin(BAND_RANGES[b][2])
    ELSE Len(eegSamples) \div 2

\* a non-empty window at a positive rate, analysed
AnalysedSignal == Analysed /\ Len(eegSamples) > 0 /\ sampleRate.n > 0

\* C19: for each band calculateBandPower sums exactly the bins k with
\* kStart <= k <= kEnd, kStart = max(1, floor(low / fPerBin)) and
\* kEnd = min(floor(high / fPerBin), floor(N/2)), and returns power 0 and
\* sums no bin whenever kEnd <= kStart, the case kEnd = kStart included
C19_BinsKStartToKEnd ==
    AnalysedSignal =>
        \A b \in FiveBands :
            IF StatedKEnd(b) <= StatedKStart(b)
            THEN bins[b] = {} /\ bands[b] = Zero
            ELSE bins[b] = StatedKStart(b) .. StatedKEnd(b)

\* a window of 6 samples at 24 Hz, analysed: delta has kEnd = kStart = 1 and
\* gets power 0 with no bin summed, theta sums the bins 1 and 2 to a power
\* above 0
C19_Witness ==
    /\ AnalysedSignal
    /\ StatedKStart("delta") = 1
    /\ StatedKEnd("delta") = 1
    /\ bins.delta = {}
    /\ bands.delta = Zero
    /\ bins.theta = {1, 2}
    /\ bands.theta.n > 0

\* C29: for every window of fewer than 4 samples and every positive sample
\* rate analyzeFrequencyBands returns 0 for all five bands and sums no bin,
\* so the NaN Hann weight of a window of one sample never reaches the result
C29_ShortWindowsZeroProfile ==
    (AnalysedSignal /\ Len(eegSamples) < 4) =>
        /\ bands = ZeroProfile
        /\ \A b \in FiveBands : bins[b] = {}

\* a window of three samples, not all 0, analysed at a positive rate to the
\* zero profile
C29_Witness ==
    /\ AnalysedSignal
    /\ Len(eegSamples) = 3
    /\ \E i \in 1..3 : eegSamples[i] # 0
    /\ bands = ZeroProfile

\* the greatest of the four Tier B scores of a profile
GreatestScore(b) ==
    CHOOSE m \in {Scores(b)[i] : i \in 1..4} : \A j \in 1..4 : RLe(Scores(b)[j], m)

-----------------------------------------------------------------------------
(* Concurrent callers of one EEGEmotionMapper.  A task's call advances in    *)
(* steps, between which the other tasks run: per band the windowing loop and *)
(* the bin loop of calculateBandPower, and in mapToEmotionalState the        *)
(* fractions and the rules.                                                  *)

TaskWindows ==
    { [samples |-> <<0, Scale, 0, 0>>, rate |-> Rat(8, 1)],
      [samples |-> <<0, Scale, Scale, 0, Scale, 0>>, rate |-> Rat(24, 1)] }

TaskProfiles ==
    { [ZeroProfile EXCEPT !.beta = One, !.gamma = One],
      [ZeroProfile EXCEPT !.alpha = One, !.theta = Rat(1, 2)] }

\* Frame with one buffer kept for all calls
Frame_Shared(t) == 1

\* const windowed = new Float64Array(N): each call allocates its own
Frame(t) == t

InCall(task) == task.pc \notin {"idle", "done"}

\* task t moves to rec; every other task in a call has now been overlapped
TaskStep(t, rec) ==
    tasks' = [u \in TaskIds |->
                 IF u = t THEN rec
                 ELSE IF InCall(tasks[u]) THEN [tasks[u] EXCEPT !.overlap = TRUE]
                 ELSE tasks[u]]

\* the forEach callback returns: on to the next band, or the call returns
NextBand(task, power) ==
    [task EXCEPT !.out = [task.out EXCEPT ![BandNames[task.band]] = power],
                 !.band = task.band + 1,
                 !.pc = IF task.band = Len(BandNames) THEN "done" ELSE "window"]

\* a task calls analyzeFrequencyBands(samples, rate)
TaskAnalyze(t) ==
    /\ tasks[t].pc = "idle"
    /\ \E in \in TaskWindows :
          TaskStep(t, [tasks[t] EXCEPT !.op = "analyze", !.pc = "window",
                                       !.samples = in.samples, !.rate = in.rate,
                                       !.band = 1, !.out = UndefinedBands])
    /\ UNCHANGED <<frames, mapper>>
    /\ UNCHANGED exceptTasks

\* calculateBandPower up to the end of the windowing loop
TaskWindow(t) ==
    /\ tasks[t].pc = "window"
    /\ LET task == tasks[t]
           range == BAND_RANGES[BandNames[task.band]]
       IN  IF NoSignal(Len(task.samples), task.rate, range[1], range[2])
           THEN /\ TaskStep(t, NextBand(task, Zero))
                /\ UNCHANGED frames
           ELSE \E hann \in {HannWindow(task.samples)} :
                   /\ frames' = [frames EXCEPT ![Frame(t)] = hann.windowed]
                   /\ TaskStep(t, [task EXCEPT !.samples = hann.samples, !.pc = "bins"])
    /\ UNCHANGED mapper
    /\ UNCHANGED exceptTasks

\* calculateBandPower from fPerBin to its return
TaskBins(t) ==
    /\ tasks[t].pc = "bins"
    /\ LET task == tasks[t]
           range == BAND_RANGES[BandNames[task.band]]
       IN  \E rest \in {BinsPower(frames[Frame(t)], task.rate, range[1], range[2])} :
               TaskStep(t, NextBand(task, ToNumber(rest.power)))
    /\ frames' = [frames EXCEPT ![Frame(t)] = <<>>]
    /\ UNCHANGED mapper
    /\ UNCHANGED exceptTasks

\* a task calls mapToEmotionalState(profile)
TaskMap(t) ==
    /\ tasks[t].pc = "idle"
    /\ \E p \in TaskProfiles :
          TaskStep(t, [tasks[t] EXCEPT !.op = "map", !.pc = "fractions", !.profile = p])
    /\ UNCHANGED <<frames, mapper>>
    /\ UNCHANGED exceptTasks

\* total and r
TaskFractions(t) ==
    /\ tasks[t].pc = "fractions"
    /\ TaskStep(t, [tasks[t] EXCEPT !.r = Fractions(tasks[t].profile), !.pc = "rules"])
    /\ UNCHANGED <<frames, mapper>>
    /\ UNCHANGED exceptTasks

\* the rules, or the scores, to the return
TaskRules(t) ==
    /\ tasks[t].pc = "rules"
    /\ LET task == tasks[t]
       IN  TaskStep(t, [task EXCEPT !.state = IF TierAGuard(task.r) THEN TierA(task.r)
                                                ELSE TierB(task.profile),
                                    !.pc = "done"])
    /\ UNCHANGED <<frames, mapper>>
    /\ UNCHANGED exceptTasks

\* all tasks have their results and drop them
TaskJoin ==
    /\ \A t \in TaskIds : tasks[t].pc = "done"
    /\ tasks' = [t \in TaskIds |-> IdleTask]
    /\ UNCHANGED <<frames, mapper>>
    /\ UNCHANGED exceptTasks

NextTasks ==
    \/ \E t \in TaskIds : TaskAnalyze(t)
    \/ \E t \in TaskIds : TaskWindow(t)
    \/ \E t \in TaskIds : TaskBins(t)
    \/ \E t \in TaskIds : TaskMap(t)
    \/ \E t \in TaskIds : TaskFractions(t)
    \/ \E t \in TaskIds : TaskRules(t)
    \/ TaskJoin

SpecTasks == Init /\ [][NextTasks]_vars

\* C11: whatever the interleaving of the tasks' calls on the shared mapper,
\* a call that has returned returned what the same call returns when it runs
\* alone on the same input
C11_InterleavedCallsAsAlone ==
    \A t \in TaskIds :
        tasks[t].pc = "done" =>
            /\ tasks[t].op = "analyze" =>
                  tasks[t].out = analyzeFrequencyBands(tasks[t].samples, tasks[t].rate).bands
            /\ tasks[t].op = "map" =>
                  tasks[t].state = mapToEmotionalState(tasks[t].profile).state

\* two calls of analyzeFrequencyBands that overlapped, on different windows,
\* both returned with a band of non-zero power
C11_Witness ==
    /\ \A t \in {1, 2} :
          /\ tasks[t].pc = "done"
          /\ tasks[t].op = "analyze"
          /\ tasks[t].overlap
          /\ \E b \in FiveBands : tasks[t].out[b].n > 0
    /\ tasks[1].samples # tasks[2].samples

-----------------------------------------------------------------------------
(* The sinusoid tests of the mapper: generateSine, then one call of          *)
(* analyzeFrequencyBands, the bin loop of calculateBandPower taken one bin   *)
(* at a step.                                                                *)

ToneRate == 256

ToneSeconds == 2

ToneFreqs == {10, 15}

\* generateSine(freqHz, sampleRate, seconds, amplitude = 1)
generateSine(freqHz, rate, seconds) ==
    [n \in 1..(rate * seconds) |-> FMul(Scale, MathSin(freqHz * (n - 1), rate))]

\* const x = generateSine(f, sampleRate, 2, 1); analyzeFrequencyBands is entered
ToneGenerate ==
    /\ tone.pc = "idle"
    /\ \E f \in ToneFreqs :
          /\ toneSamples' = generateSine(f, ToneRate, ToneSeconds)
          /\ tone' = [IdleTone EXCEPT !.freq = f, !.pc = "band", !.band = 1]
    /\ UNCHANGED <<toneWindowed, mapper>>
    /\ UNCHANGED exceptTone

\* bands[band] = power: on to the next band, or the call returns
ToneNextBand(power) ==
    [tone EXCEPT !.out = [tone.out EXCEPT ![BandNames[tone.band]] = power],
                 !.band = tone.band + 1,
                 !.k = 0, !.kEnd = 0, !.powerSum = 0, !.binCount = 0,
                 !.pc = IF tone.band = Len(BandNames) THEN "returned" ELSE "band"]

\* calculateBandPower for the next band, up to the head of the bin loop
ToneBand ==
    /\ tone.pc = "band"
    /\ LET range == BAND_RANGES[BandNames[tone.band]]
           N == Len(toneSamples)
           fPerBin == FPerBin(Rat(ToneRate, 1), N)
           kStart == KStart(range[1], fPerBin)
           kEnd == KEnd(range[2], fPerBin, N)
       IN  IF NoSignal(N, Rat(ToneRate, 1), range[1], range[2])
           THEN /\ tone' = ToneNextBand(Zero)
                /\ UNCHANGED <<toneSamples, toneWindowed>>
           ELSE \E hann \in {HannWindow(toneSamples)} :
                   /\ toneSamples' = hann.samples
                   /\ IF RLe(kEnd, kStart)
                      THEN /\ tone' = ToneNextBand(Zero)
                           /\ toneWindowed' = <<>>
                      ELSE /\ tone' = [tone EXCEPT !.pc = "bin", !.k = kStart.n,
                                                   !.kEnd = kEnd.n]
                           /\ toneWindowed' = hann.windowed
    /\ UNCHANGED mapper
    /\ UNCHANGED exceptTone

\* one turn of for (let k = kStart; k <= kEnd; k++)
ToneBin ==
    /\ tone.pc = "bin"
    /\ tone.k <= tone.kEnd
    /\ \E mag2 \in {Mag2(toneWindowed, tone.k)} :
          tone' = [tone EXCEPT !.powerSum = FAdd(tone.powerSum, mag2),
                               !.binCount = tone.binCount + 1,
                               !.k = tone.k + 1]
    /\ UNCHANGED <<toneSamples, toneWindowed, mapper>>
    /\ UNCHANGED exceptTone

\* the loop is left: avgPower, and the square root is returned
ToneBandDone ==
    /\ tone.pc = "bin"
    /\ tone.k > tone.kEnd
    /\ LET avgPower == FDivInt(tone.powerSum,
                               IF tone.binCount > 1 THEN tone.binCount ELSE 1)
       IN  tone' = ToneNextBand(ToNumber(MathSqrt(avgPower)))
    /\ toneWindowed' = <<>>
    /\ UNCHANGED <<toneSamples, mapper>>
    /\ UNCHANGED exceptTone

\* the test has compared the bands
ToneRelease ==
    /\ tone.pc = "returned"
    /\ tone' = IdleTone
    /\ toneSamples' = <<>>
    /\ UNCHANGED <<toneWindowed, mapper>>
    /\ UNCHANGED exceptTone

NextTone == ToneGenerate \/ ToneBand \/ ToneBin \/ ToneBandDone \/ ToneRelease

SpecTone == Init /\ [][NextTone]_vars

\* C12: for the sinusoid of amplitude 1 at 256 Hz over 2 s, at 15 Hz the
\* beta power is greater than the alpha power and than the theta power, and
\* at 10 Hz the alpha power is greater than the beta power and than the
\* theta power
C12_ToneBandDominates ==
    tone.pc = "returned" =>
        /\ tone.freq = 15 =>
              RGt(tone.out.beta, tone.out.alpha) /\ RGt(tone.out.beta, tone.out.theta)
        /\ tone.freq = 10 =>
              RGt(tone.out.alpha, tone.out.beta) /\ RGt(tone.out.alpha, tone.out.theta)

\* the 15 Hz sinusoid of 512 samples analysed, its beta power positive
C12_Witness ==
    /\ tone.pc = "returned"
    /\ tone.freq = 15
    /\ Len(toneSamples) = 512
    /\ RGt(tone.out.beta, Zero)

-----------------------------------------------------------------------------
(* ResponseCache.  A string that is split at '_' is held as the tuple of its *)
(* '_'-free segments; a string that is only hashed, as its UTF-16 code units. *)

MAX_SIZE == 100

TTL == 5 * 60 * 1000

CLEANUP_INTERVAL == 60 * 1000

Digits == <<"0", "1", "2", "3", "4", "5", "6", "7", "8", "9",
            "a", "b", "c", "d", "e", "f", "g", "h", "i", "j", "k", "l", "m",
            "n", "o", "p", "q", "r", "s", "t", "u", "v", "w", "x", "y", "z">>

RECURSIVE ToRadix(_, _)
\* n.toString(radix) for an integer n >= 0
ToRadix(n, radix) ==
    IF n < radix THEN Digits[n + 1]
    ELSE ToRadix(n \div radix, radix) \o Digits[(n % radix) + 1]

\* `${x}` for a number x with at most one decimal
NumberToString(x) ==
    IF IsNaN(x) THEN "NaN"
    ELSE IF x.d = 0 THEN (IF x.n > 0 THEN "Infinity" ELSE "-Infinity")
    ELSE LET tenths == (Abs(x.n) * 10) \div x.d
         IN  (IF x.n < 0 THEN "-" ELSE "")
                \o ToRadix(tenths \div 10, 10)
                \o (IF tenths % 10 = 0 THEN "" ELSE "." \o Digits[(tenths % 10) + 1])

\* hash = (hash << 5) - hash + char; hash = hash & hash: 31 * hash + char as
\* a 32-bit signed integer, computed on 16-bit halves
HashStep(hash, char) ==
    LET lo == 31 * (hash % 65536) + char
        hi == (31 * ((hash \div 65536) % 65536) + lo \div 65536) % 65536
    IN  IF hi >= 32768 THEN (hi - 65536) * 65536 + (lo % 65536)
        ELSE hi * 65536 + (lo % 65536)

RECURSIVE HashLoop(_, _)
\* the value of hash after the first i code units of str
HashLoop(str, i) ==
    IF i = 0 THEN 0
    ELSE CHOOSE hash \in {HashStep(before, str[i]) : before \in {HashLoop(str, i - 1)}} : TRUE

\* Math.abs(hash).toString(36).substring(0, 8): at most 7 digits, so the
\* substring is the whole string; -2^31 has no positive int of 32 bits
hashString(str) ==
    LET hash == HashLoop(str, Len(str))
    IN  IF hash = (0 - 2147483647) - 1 THEN "zik0zk" ELSE ToRadix(Abs(hash), 36)

\* str.substring(0, n)
Substring(str, n) == SubSeq(str, 1, IF Len(str) < n THEN Len(str) ELSE n)

\* generateCacheKey: the segments of
\* `${primary}_${intensityBand}_${contextHash}_${characterKey}`
generateCacheKey(context) ==
    LET intensityBand == RDiv(MathFloor(RMul(context.emotion.intensity, Rat(10, 1))),
                              Rat(10, 1))
        contextHash == hashString(Substring(context.storyContext, 50))
        characterKey == IF context.character = <<>> THEN <<"default">>
                        ELSE context.character
    IN  context.emotion.primary \o <<NumberToString(intensityBand), contextHash>>
            \o characterKey

\* the position of key in the Map, 0 when it has no entry
Position(map, key) ==
    IF \E i \in 1..Len(map) : map[i].key = key
    THEN CHOOSE i \in 1..Len(map) : map[i].key = key
    ELSE 0

\* this.cache.delete(key)
MapDelete(map, key) ==
    LET i == Position(map, key)
    IN  IF i = 0 THEN map ELSE SubSeq(map, 1, i - 1) \o SubSeq(map, i + 1, Len(map))

\* MapSet that leaves the entry of an existing key as it is
MapSet_KeepsOld(map, entry) ==
    IF Position(map, entry.key) = 0 THEN Append(map, entry) ELSE map

\* this.cache.set(key, entry): an existing key keeps its place
MapSet(map, entry) ==
    LET i == Position(map, entry.key)
    IN  IF i = 0 THEN Append(map, entry) ELSE [map EXCEPT ![i] = entry]

\* get that measures the TTL from lastAccessed
CacheGet_FromLastAccessed(map, context, clock) ==
    LET key == generateCacheKey(context)
        i == Position(map, key)
    IN  IF i = 0 THEN [cache |-> map, value |-> "null"]
        ELSE IF clock - map[i].lastAccessed > TTL
        THEN [cache |-> MapDelete(map, key), value |-> "null"]
        ELSE [cache |-> [map EXCEPT ![i].accessCount = map[i].accessCount + 1,
                                    ![i].lastAccessed = clock],
              value |-> map[i].response]

\* get: the Map it leaves and the value returned
CacheGet(map, context, clock) ==
    LET key == generateCacheKey(context)
        i == Position(map, key)
    IN  IF i = 0 THEN [cache |-> map, value |-> "null"]
        ELSE IF clock - map[i].timestamp > TTL
        THEN [cache |-> MapDelete(map, key), value |-> "null"]
        ELSE [cache |-> [map EXCEPT ![i].accessCount = map[i].accessCount + 1,
                                    ![i].lastAccessed = clock],
              value |-> map[i].response]

\* the smallest lastAccessed among the entries of a Map that has some
LeastAccessed(map) ==
    CHOOSE least \in {map[i].lastAccessed : i \in 1..Len(map)} :
        \A i \in 1..Len(map) : least <= map[i].lastAccessed

\* LruKey that takes the last of the entries least recently used
LruKey_Last(map, clock) ==
    IF \E i \in 1..Len(map) : map[i].lastAccessed < clock
    THEN CHOOSE lruKey \in
            { <<map[CHOOSE i \in 1..Len(map) :
                       /\ map[i].lastAccessed = least
                       /\ \A j \in (i + 1)..Len(map) : map[j].lastAccessed # least].key>> :
                 least \in {LeastAccessed(map)} } : TRUE
    ELSE <<>>

\* the loop of evictLeastRecentlyUsed: lruKey, <<>> for null.  lruTime
\* starts at Date.now(), and only a strictly smaller lastAccessed replaces
\* it: the first of the entries of least lastAccessed, if that is before now
LruKey(map, clock) ==
    IF \E i \in 1..Len(map) : map[i].lastAccessed < clock
    THEN CHOOSE lruKey \in
            { <<map[CHOOSE i \in 1..Len(map) :
                       /\ map[i].lastAccessed = least
                       /\ \A j \in 1..(i - 1) : map[j].lastAccessed # least].key>> :
                 least \in {LeastAccessed(map)} } : TRUE
    ELSE <<>>

\* evictLeastRecentlyUsed
evictLeastRecentlyUsed(map, clock) ==
    LET lruKey == LruKey(map, clock)
    IN  IF lruKey = <<>> THEN map ELSE MapDelete(map, lruKey[1])

\* set: the Map it leaves
CacheSet(map, context, response, clock) ==
    LET key == generateCacheKey(context)
        kept == IF Len(map) >= MAX_SIZE THEN evictLeastRecentlyUsed(map, clock) ELSE map
    IN  MapSet(kept, [key |-> key, response |-> response, timestamp |-> clock,
                      accessCount |-> 1, lastAccessed |-> clock,
                      emotionalSignature |-> key])

\* cleanupExpired
cleanupExpired(map, clock) ==
    SelectSeq(map, LAMBDA entry : ~(clock - entry.timestamp > TTL))

RAbs(x) == [n |-> Abs(x.n), d |-> x.d]

\* the intensity bands as generateCacheKey prints them: '0', '0.1', ..., '1'
PrintedBands == [k \in 0..10 |-> NumberToString(Rat(k, 10))]

\* parseFloat(segment) for a segment of a cache key: the number whose print
\* it is, NaN for a segment that begins with a letter
ParseFloat(segment) ==
    IF \E k \in 0..10 : PrintedBands[k] = segment
    THEN Rat(CHOOSE k \in 0..10 : PrintedBands[k] = segment, 10)
    ELSE RNaN

\* the similarity findSimilarResponses gives a cached key for a target
\* emotion and intensity; [a, b] = key.split('_') takes the first two
\* segments
Similarity(key, targetEmotion, targetIntensityNum) ==
    CHOOSE similarity \in
        { RAdd(IF key[1] = targetEmotion THEN Rat(6, 10) ELSE Zero,
               IF RLe(intensityDiff, Rat(2, 10))
               THEN RMul(Rat(4, 10), RSub(One, RMul(intensityDiff, Rat(5, 1))))
               ELSE Zero) :
            intensityDiff \in {RAbs(RSub(ParseFloat(key[2]), targetIntensityNum))} } : TRUE

RECURSIVE SortByAccessCount(_)
\* similar.sort((a, b) => b.accessCount - a.accessCount): descending, and
\* stable
SortByAccessCount(similar) ==
    IF Len(similar) <= 1 THEN similar
    ELSE LET sorted == SortByAccessCount(SubSeq(similar, 1, Len(similar) - 1))
             last == similar[Len(similar)]
             n == Cardinality({i \in 1..Len(sorted) :
                                  sorted[i].accessCount >= last.accessCount})
         IN  SubSeq(sorted, 1, n) \o <<last>> \o SubSeq(sorted, n + 1, Len(sorted))

similarityThreshold == Rat(7, 10)

\* findSimilarResponses: the entries returned
findSimilarResponses(map, context, threshold) ==
    CHOOSE sorted \in
        { SortByAccessCount(
              SelectSeq(map, LAMBDA cached :
                  RGe(Similarity(cached.key, target.emotion, target.intensityNum), threshold))) :
            target \in {[emotion |-> targetKey[1], intensityNum |-> ParseFloat(targetKey[2])] :
                           targetKey \in {generateCacheKey(context)}} } : TRUE

\* Bounds of the cache's callers
MaxTicks == 2     \* advances of the clock
MaxAccess == 2    \* largest accessCount a get may find

\* 'Testing cache functionality'
TestStory ==
    <<84, 101, 115, 116, 105, 110, 103, 32, 99, 97, 99, 104, 101, 32,
      102, 117, 110, 99, 116, 105, 111, 110, 97, 108, 105, 116, 121>>

testContext ==
    [emotion |-> [primary |-> <<"FOCUSED", "HIGH">>, intensity |-> Rat(8, 10)],
     storyContext |-> TestStory,
     character |-> <<"TEST", "CHARACTER">>]

\* the contexts a caller sets: the test's, and one of the same intensity band
SetContexts ==
    {testContext, [testContext EXCEPT !.emotion.intensity = Rat(85, 100)]}

LabelSegments ==
    << <<"FOCUSED", "HIGH">>, <<"RELAXED", "CALM">>,
       <<"ANXIOUS", "STRESSED">>, <<"CURIOUS", "INTERESTED">> >>

\* the labels of a batch: one without '_', and the four
BatchLabels == << <<"calm">> >> \o LabelSegments

\* the i-th context of a batch: MAX_SIZE and more contexts of different keys
Background(i) ==
    [emotion |-> [primary |-> BatchLabels[((i - 1) % 5) + 1],
                  intensity |-> Rat(((i - 1) \div 5) % 10, 10)],
     storyContext |-> <<>>,
     character |-> <<"npc", ToRadix((i - 1) \div 50, 10)>>]

\* a context of a label without '_'
plainContext ==
    [testContext EXCEPT !.emotion.primary = <<"calm">>, !.emotion.intensity = Rat(1, 10)]

\* Background(6) is the second context of the label 'calm' in a batch
GetContexts == SetContexts \cup {Background(6)}

\* Background(2) to Background(5) are contexts of the four labels
FindContexts == {testContext, plainContext} \cup {Background(i) : i \in 2..5}

CacheResponses == {"r1", "r2"}

TestKey == generateCacheKey(testContext)

RECURSIVE SetRange(_, _, _, _)
\* for (i = lo; i <= hi; i++) cache.set(Background(i), 'r1'): the first
\* half of the turns, then the second
SetRange(map, lo, hi, clock) ==
    IF lo > hi THEN map
    ELSE IF lo = hi THEN CacheSet(map, Background(lo), "r1", clock)
    ELSE CHOOSE after \in
            { SetRange(half, (lo + hi) \div 2 + 1, hi, clock) :
                 half \in {SetRange(map, lo, (lo + hi) \div 2, clock)} } : TRUE

\* the test context's entry was in the Map and is no more
Gone(before, after) == Position(before, TestKey) # 0 /\ Position(after, TestKey) = 0

\* responseCache.set(context, response)
CacheSetOp ==
    /\ \E c \in SetContexts, r \in CacheResponses :
          /\ cache' = CacheSet(cache, c, r, now)
          /\ stored' = [set |-> TRUE, response |-> r, at |-> now, evicted |-> FALSE,
                        hitAt |-> -1]
    /\ got' = NoGet
    /\ UNCHANGED <<now, ticks>>
    /\ UNCHANGED exceptCache

\* responseCache.get(context)
CacheGetOp ==
    /\ \E c \in GetContexts :
          /\ LET i == Position(cache, generateCacheKey(c))
             IN  (i # 0 /\ now - cache[i].timestamp <= TTL) =>
                     cache[i].accessCount < MaxAccess
          /\ \E call \in {CacheGet(cache, c, now)} :
                /\ cache' = call.cache
                /\ got' = [NoGet EXCEPT !.key = generateCacheKey(c),
                                        !.value = call.value, !.at = now]
                /\ stored' = IF generateCacheKey(c) = TestKey /\ call.value # "null"
                             THEN [stored EXCEPT !.hitAt = now]
                             ELSE stored
    /\ UNCHANGED <<now, ticks>>
    /\ UNCHANGED exceptCache

\* a caller stores a batch of responses under other keys, none of which the
\* cache holds
CacheBatch ==
    /\ \A i \in 1..Len(cache) : cache[i].key = TestKey
    /\ \E n \in {MAX_SIZE - 1, MAX_SIZE} :
          \E after \in {SetRange(cache, 1, n, now)} :
             /\ cache' = after
             /\ stored' = [stored EXCEPT !.evicted = stored.evicted \/ Gone(cache, after)]
    /\ got' = NoGet
    /\ UNCHANGED <<now, ticks>>
    /\ UNCHANGED exceptCache

\* responseCache.findSimilarResponses(context)
CacheFindOp ==
    /\ \E c \in FindContexts :
          got' = [NoGet EXCEPT !.findKey = generateCacheKey(c),
                               !.similar = findSimilarResponses(cache, c, similarityThreshold),
                               !.at = now]
    /\ UNCHANGED <<cache, now, ticks, stored>>
    /\ UNCHANGED exceptCache

\* time passes
CacheTick ==
    /\ ticks < MaxTicks
    /\ \E d \in {1, TTL} : now' = now + d
    /\ ticks' = ticks + 1
    /\ got' = NoGet
    /\ UNCHANGED <<cache, stored>>
    /\ UNCHANGED exceptCache

\* the interval timer of startCleanupInterval fires
CacheCleanup ==
    /\ cache' = cleanupExpired(cache, now)
    /\ got' = NoGet
    /\ UNCHANGED <<now, ticks, stored>>
    /\ UNCHANGED exceptCache

NextCache == CacheSetOp \/ CacheGetOp \/ CacheBatch \/ CacheTick \/ CacheCleanup

SpecCache == Init /\ [][NextCache]_vars

\* findSimilarResponses reads keys and accessCounts only and changes
\* nothing, so its callers are followed at one clock value
NextSimilar == CacheSetOp \/ CacheGetOp \/ CacheBatch \/ CacheFindOp

SpecSimilar == Init /\ [][NextSimilar]_vars

\* C13 as stated: a get of the test context's key within the TTL of the last
\* set under that key returns the response of that set
C13_GetReturnsLastSet ==
    (got.key = TestKey /\ stored.set /\ got.at - stored.at <= TTL) =>
        got.value = stored.response

\* C13 amended: a get of the test context's key within the TTL of the last
\* set under that key returns the response of that set, unless a later set
\* made with MAX_SIZE entries held has evicted the entry
C13_GetReturnsLastSetUnlessEvicted ==
    (got.key = TestKey /\ stored.set /\ got.at - stored.at <= TTL /\ ~stored.evicted) =>
        got.value = stored.response

\* the response of an earlier set retrieved from a full cache, time having
\* passed since the set
C13_Witness ==
    /\ got.key = TestKey
    /\ stored.set
    /\ ~stored.evicted
    /\ got.at > stored.at
    /\ got.value = stored.response
    /\ Len(cache) >= MAX_SIZE

\* C21: a get for a context whose response is cached returns it exactly when
\* now - (time of the set that stored it) <= TTL, and otherwise returns null
\* and removes the entry; a successful get adds 1 to accessCount and sets
\* lastAccessed to now but leaves the time the lifetime is counted from
C21_TimeBoxedFromSet ==
    [][(CacheGetOp /\ got'.key = TestKey /\ Position(cache, TestKey) # 0) =>
          LET held == cache[Position(cache, TestKey)]
          IN  /\ stored.set /\ held.timestamp = stored.at
              /\ held.response = stored.response
              /\ IF now - stored.at <= TTL
                 THEN /\ got'.value = stored.response
                      /\ Position(cache', TestKey) # 0
                      /\ cache'[Position(cache', TestKey)] =
                            [held EXCEPT !.accessCount = held.accessCount + 1,
                                         !.lastAccessed = now]
                 ELSE /\ got'.value = "null"
                      /\ Position(cache', TestKey) = 0]_vars

\* a get has returned the response after the set, and a later get, within
\* the TTL of that get but beyond the TTL of the set, has returned null
C21_Witness ==
    /\ got.key = TestKey
    /\ got.value = "null"
    /\ stored.set
    /\ stored.hitAt > stored.at
    /\ got.at - stored.hitAt <= TTL
    /\ got.at - stored.at > TTL
    /\ Position(cache, TestKey) = 0

\* the key is one of a context of the four labels
Labelled(key) == \E l \in 1..Len(LabelSegments) : SubSeq(key, 1, 2) = LabelSegments[l]

\* the list is ordered by accessCount descending
ByAccessCountDescending(similar) ==
    \A j \in 1..(Len(similar) - 1) : similar[j].accessCount >= similar[j + 1].accessCount

\* C23: findSimilarResponses(c) with the default threshold returns every
\* cached entry stored under the same emotion label and the same intensity
\* band as c, for each of the four labels, ordered by accessCount descending
C23_FindsSameLabelAndBand ==
    (got.findKey # <<>> /\ Labelled(got.findKey)) =>
        /\ \A i \in 1..Len(cache) :
               SubSeq(cache[i].key, 1, 3) = SubSeq(got.findKey, 1, 3) =>
                   \E j \in 1..Len(got.similar) : got.similar[j] = cache[i]
        /\ ByAccessCountDescending(got.similar)

\* for a context of one of the four labels findSimilarResponses returns
\* the empty list, whatever the cache holds
C23_NothingFoundForLabels ==
    (got.findKey # <<>> /\ Labelled(got.findKey)) => got.similar = <<>>

\* for a context of a label without '_' findSimilarResponses returns the
\* entries of that label whose band is at most 0.1 away, ordered by
\* accessCount descending
C23_FoundForPlainLabel ==
    (got.findKey # <<>> /\ ~Labelled(got.findKey)) =>
        /\ \A i \in 1..Len(cache) :
               (/\ cache[i].key[1] = got.findKey[1]
                /\ RLe(RAbs(RSub(ParseFloat(cache[i].key[2]), ParseFloat(got.findKey[2]))),
                       Rat(1, 10)))
                <=> \E j \in 1..Len(got.similar) : got.similar[j] = cache[i]
        /\ ByAccessCountDescending(got.similar)

\* findSimilarResponses for the test context, whose entry the cache holds
\* with others of its label, has returned nothing
C23_TestContextNotFound ==
    /\ got.findKey = TestKey
    /\ Position(cache, TestKey) # 0
    /\ Len(cache) >= MAX_SIZE
    /\ got.similar = <<>>

\* findSimilarResponses for the label 'calm' has returned several entries,
\* the one read by a get first
C23_PlainLabelSorted ==
    /\ got.findKey # <<>>
    /\ ~Labelled(got.findKey)
    /\ Len(got.similar) >= 3
    /\ got.similar[1].accessCount > got.similar[2].accessCount
    /\ got.similar[1].key # cache[1].key

\* C27: after any sequence of set, get and cleanupExpired operations, at
\* any clock values, the cache holds at most MAX_SIZE entries
C27_AtMostMaxSizeEntries == Len(cache) <= MAX_SIZE

\* the sets that found MAX_SIZE entries, all of them accessed at the clock
\* value of the set, have evicted none: more than MAX_SIZE entries are held,
\* and all of them were last accessed now
C27_FullCacheGrows ==
    /\ Len(cache) > MAX_SIZE
    /\ \A i \in 1..Len(cache) : cache[i].lastAccessed = now

\* the step is a set that has evicted one of the entries of smallest
\* lastAccessed, and nothing else, before its insert
EvictsOneLeastRecentlyUsed ==
    \E i \in 1..Len(cache) :
        /\ cache[i].lastAccessed = LeastAccessed(cache)
        /\ \E j \in 1..Len(cache') :
               cache' = MapSet(MapDelete(cache, cache[i].key), cache'[j])

\* C22: a set called while the cache holds MAX_SIZE entries evicts exactly
\* one entry before the insert, one with the smallest lastAccessed among the
\* entries held
C22_SetAtMaxSizeEvictsLru ==
    [][(CacheSetOp /\ Len(cache) >= MAX_SIZE) => EvictsOneLeastRecentlyUsed]_vars

\* a set called while the cache holds MAX_SIZE entries, one of them last
\* accessed before the clock value of the call, evicts exactly one entry,
\* one with the smallest lastAccessed
C22_EvictsLruAccessedEarlier ==
    [][(/\ CacheSetOp
        /\ Len(cache) >= MAX_SIZE
        /\ \E i \in 1..Len(cache) : cache[i].lastAccessed < now)
            => EvictsOneLeastRecentlyUsed]_vars

\* a set called while the cache holds MAX_SIZE entries, all of them last
\* accessed at the clock value of the call, evicts nothing
C22_EvictsNothingAccessedNow ==
    [][(/\ CacheSetOp
        /\ Len(cache) >= MAX_SIZE
        /\ \A i \in 1..Len(cache) : cache[i].lastAccessed = now)
            => \A i \in 1..Len(cache) : Position(cache', cache[i].key) # 0]_vars

\* every entry stored under another key than the test context's is still
\* present and unchanged after the step
OtherEntriesKept ==
    \A i \in 1..Len(cache) :
        cache[i].key # TestKey =>
            \E j \in 1..Len(cache') : cache'[j] = cache[i]

\* C28: a set for a context whose key is already cached changes only that
\* key's entry: every entry stored under a different key is still present
\* and unchanged afterwards, also when the cache holds MAX_SIZE entries
C28_SetOfCachedKeyKeepsOthers ==
    [][(CacheSetOp /\ Position(cache, TestKey) # 0) => OtherEntriesKept]_vars

\* a set for a context whose key is already cached, called while the cache
\* holds fewer than MAX_SIZE entries, changes only that key's entry
C28_KeepsOthersBelowMaxSize ==
    [][(CacheSetOp /\ Position(cache, TestKey) # 0 /\ Len(cache) < MAX_SIZE)
            => OtherEntriesKept]_vars

-----------------------------------------------------------------------------
(* PromptEngine.validateResponse.  A response is an object whose fields     *)
(* carry a typeof and a value, or null; a field may be absent.  A schema    *)
(* type is the list of its '|'-separated alternatives.                      *)

\* templates.emotional_dialogue.responseFormat.schema, in key order
EmotionalDialogueSchema ==
    << [key |-> "dialogue", type |-> <<"string">>],
       [key |-> "emotionalTone", type |-> <<"string">>],
       [key |-> "narrativeImpact", type |-> <<"low", "medium", "high">>],
       [key |-> "characterConsistency", type |-> <<"number">>] >>

\* this.templates[templateName]?.responseFormat?.schema; <<>> when there
\* is no such template
SchemaOf(templateName) ==
    IF templateName = "emotional_dialogue" THEN EmotionalDialogueSchema ELSE <<>>

\* key in response
In(key, fields) == fields[key].type # "absent"

\* the first statement of the try block: a response without emotionalTone
\* takes it from tone
AdoptTone(fields) ==
    IF ~In("emotionalTone", fields) /\ In("tone", fields)
    THEN [fields EXCEPT !["emotionalTone"] = fields["tone"]]
    ELSE fields

\* validValues.includes(response[key]): strict equality with one of the
\* alternatives
Includes(type, value) ==
    value.type = "string" /\ \E i \in 1..Len(type) : type[i] = value.v

\* one pass of the for loop over a schema entry: "continue" or "false"
FieldVerdict(entry, fields) ==
    IF ~In(entry.key, fields)
    THEN IF entry.key = "narrativeImpact" \/ entry.key = "characterConsistency"
         THEN "continue"
         ELSE "false"
    ELSE IF Len(entry.type) > 1
         THEN IF Includes(entry.type, fields[entry.key]) THEN "continue" ELSE "false"
         ELSE IF fields[entry.key].type # entry.type[1] THEN "false" ELSE "continue"

\* The call: the value returned and the response object as the call leaves
\* it.  The in operator throws on null, which the catch turns into false.
validateResponse(response, templateName) ==
    LET schema == SchemaOf(templateName)
        fields == AdoptTone(response.fields)
    IN  IF schema = <<>>
        THEN [result |-> TRUE, response |-> response]
        ELSE IF ~response.isObject
             THEN [result |-> FALSE, response |-> response]
             ELSE [result |-> \A i \in 1..Len(schema) :
                                 FieldVerdict(schema[i], fields) = "continue",
                   response |-> [response EXCEPT !.fields = fields]]

Str(v) == [type |-> "string", v |-> v]

Number(v) == [type |-> "number", v |-> v]

\* the values a caller puts in each field of a response
FieldValues ==
    [dialogue |-> {Absent, Str("Test dialogue"), Number("1")},
     emotionalTone |-> {Absent, Str("intense")},
     tone |-> {Absent, Str("calm"), Number("1")},
     narrativeImpact |-> {Absent, Str("medium"), Str("extreme")},
     characterConsistency |-> {Absent, Number("0.8"), Str("0.8")}]

\* the responses validated: the objects over FieldValues, and null
Responses ==
    {[isObject |-> TRUE, fields |-> f] :
        f \in {g \in [ResponseKeys -> UNION {FieldValues[k] : k \in ResponseKeys}] :
                    \A k \in ResponseKeys : g[k] \in FieldValues[k]}}
    \cup {NotValidating.response}

TemplateNames == {"emotional_dialogue", "no_such_template"}

\* a caller holds a response to validate against a template
PromptSupply ==
    /\ validation.pc = "idle"
    /\ \E response \in Responses, templateName \in TemplateNames :
           validation' = [pc |-> "held", given |-> response, response |-> response,
                          templateName |-> templateName, result |-> FALSE]
    /\ UNCHANGED exceptPrompt

\* result = promptEngine.validateResponse(response, templateName)
PromptValidate ==
    /\ validation.pc = "held"
    /\ \E call \in {validateResponse(validation.response, validation.templateName)} :
           validation' = [validation EXCEPT !.pc = "validated",
                                            !.result = call.result,
                                            !.response = call.response]
    /\ UNCHANGED exceptPrompt

\* the caller drops the response
PromptRelease ==
    /\ validation.pc = "validated"
    /\ validation' = NotValidating
    /\ UNCHANGED exceptPrompt

NextPrompt == PromptSupply \/ PromptValidate \/ PromptRelease

SpecPrompt == Init /\ [][NextPrompt]_vars

\* the response validated carries the schema field with a valid value
ValidField(entry, fields) ==
    /\ In(entry.key, fields)
    /\ IF Len(entry.type) > 1
       THEN Includes(entry.type, fields[entry.key])
       ELSE fields[entry.key].type = entry.type[1]

ValidatedDialogue ==
    /\ validation.pc = "validated"
    /\ validation.templateName = "emotional_dialogue"
    /\ validation.given.isObject

\* C16: validateResponse(response, 'emotional_dialogue') returns true for a
\* response carrying every schema field with a valid value, and false for a
\* response that omits a schema field, the one holding only dialogue and
\* emotionalTone among them
C16_ValidIffEveryField ==
    ValidatedDialogue =>
        /\ (\A i \in 1..Len(EmotionalDialogueSchema) :
                ValidField(EmotionalDialogueSchema[i], validation.given.fields))
              => validation.result = TRUE
        /\ (\E i \in 1..Len(EmotionalDialogueSchema) :
                ~In(EmotionalDialogueSchema[i].key, validation.given.fields))
              => validation.result = FALSE

\* the response holding only a string dialogue and a string emotionalTone,
\* validated and accepted
C16_OnlyDialogueAndToneAccepted ==
    /\ ValidatedDialogue
    /\ validation.given.fields =
          [k \in ResponseKeys |->
              IF k = "dialogue" THEN Str("Test dialogue")
              ELSE IF k = "emotionalTone" THEN Str("intense")
              ELSE Absent]
    /\ validation.result = TRUE

-----------------------------------------------------------------------------
(* MuseConnector in mock mode.  setInterval and clearInterval act on the    *)
(* set of timers; a timer holds the locals its callback closes over.  Time  *)
(* advances a millisecond at a time and the callbacks due run as it does,   *)
(* as under vi.advanceTimersByTime.                                         *)

MaxClock == 3      \* the timers' clock stops here
MaxChannels == 2   \* largest mockChannels configured

\* the sample rates configured: intervals of 2 ms and of 1 ms
MockRates == {500, 1000}

\* intervalMs = Math.max(1, Math.round(1000 / rate)), rate > 0
IntervalMs(rate) == IF RoundDiv(1000, rate) > 1 THEN RoundDiv(1000, rate) ELSE 1

\* new Int16Array(channels) as the callback fills it at its t-th run
MockArray(channels, t, rate) ==
    [c \in 1..channels |->
        RoundDiv((100 + (c - 1) * 10) * MathSin((10 + (c - 1) * 5) * t, rate), Scale)]

\* ParseLength that takes the byte length for the number of samples
ParseLength_Bytes(byteLength) == byteLength

\* length = Math.floor(dv.byteLength / 2)
ParseLength(byteLength) == byteLength \div 2

\* parseEEG of the DataView over an Int16Array: the sample returned
parseEEG(arr, sequence, time) ==
    [timestamp |-> time,
     channels |-> [i \in 1..ParseLength(2 * Len(arr)) |->
                      IF i <= Len(arr) THEN Rat(arr[i], 10) ELSE RNaN],
     rawByteLength |-> 2 * Len(arr),
     sequence |-> sequence]

\* emit(sample): every registered handler is called with the sample
Emit(h, sample, listeners) ==
    [x \in Handlers |-> IF x \in listeners THEN Append(h[x], sample) ELSE h[x]]

\* the timers due at a time
Due(ts, time) == {tm \in ts : tm.due <= time}

RECURSIVE RunDue(_, _, _, _)
\* the callbacks of the timers due at a time, run in the order of their
\* ids: the timers, the connector and the handlers' samples after them
RunDue(ts, m, samples, time) ==
    IF Due(ts, time) = {}
    THEN [timers |-> ts, muse |-> m, samples |-> samples]
    ELSE LET tm == CHOOSE x \in Due(ts, time) : \A y \in Due(ts, time) : x.id <= y.id
             sample == parseEEG(MockArray(tm.channels, tm.t, tm.rate), m.mockSequence, time)
         IN  RunDue((ts \ {tm}) \cup {[tm EXCEPT !.t = tm.t + 1, !.due = tm.due + tm.intervalMs]},
                    [m EXCEPT !.mockSequence = m.mockSequence + 1],
                    Emit(samples, sample, m.listeners),
                    time)

\* an id no timer holds
FreshTimer(ts) == 1 + Cardinality(ts)

\* startMockStream() without 'if (this.mockTimer !== null) return'
startMockStream_Unguarded(m, ts, time) ==
    [muse |-> [m EXCEPT !.mockTimer = FreshTimer(ts)],
     timers |-> ts \cup {[id |-> FreshTimer(ts),
                          due |-> time + IntervalMs(m.config.mockSampleRate),
                          intervalMs |-> IntervalMs(m.config.mockSampleRate),
                          rate |-> m.config.mockSampleRate,
                          channels |-> m.config.mockChannels,
                          t |-> 0]},
     started |-> TRUE]

\* startMockStream(): the connector and the timers after it
startMockStream(m, ts, time) ==
    IF m.mockTimer # NullTimer
    THEN [muse |-> m, timers |-> ts, started |-> FALSE]
    ELSE [muse |-> [m EXCEPT !.mockTimer = FreshTimer(ts)],
          timers |-> ts \cup {[id |-> FreshTimer(ts),
                               due |-> time + IntervalMs(m.config.mockSampleRate),
                               intervalMs |-> IntervalMs(m.config.mockSampleRate),
                               rate |-> m.config.mockSampleRate,
                               channels |-> m.config.mockChannels,
                               t |-> 0]},
          started |-> TRUE]

\* stopMockStream(): the connector and the timers after it
stopMockStream(m, ts) ==
    IF m.mockTimer # NullTimer
    THEN [muse |-> [m EXCEPT !.mockTimer = NullTimer],
          timers |-> {tm \in ts : tm.id # m.mockTimer}]
    ELSE [muse |-> m, timers |-> ts]

\* disconnect(): no device was ever connected (device, server and
\* characteristics are null or empty from construction on and are set to
\* that again), so what it does is stopMockStream()
disconnect(m, ts) == stopMockStream(m, ts)

\* new MuseConnector({ enableMock: true, mockSampleRate, mockChannels })
MuseNew ==
    /\ ~muse.constructed
    /\ \E rate \in MockRates, channels \in 0..MaxChannels :
           muse' = [NoConnector EXCEPT !.constructed = TRUE,
                                       !.config = [enableMock |-> TRUE,
                                                   mockSampleRate |-> rate,
                                                   mockChannels |-> channels]]
    /\ UNCHANGED <<timers, timerClock, heard>>
    /\ UNCHANGED exceptMuse

\* connector.onSample(handler)
MuseOnSample(h) ==
    /\ muse.constructed
    /\ muse' = [muse EXCEPT !.listeners = muse.listeners \cup {h}]
    /\ heard' = IF h \in muse.listeners THEN heard
                ELSE [heard EXCEPT !.since[h] = timerClock]
    /\ UNCHANGED <<timers, timerClock>>
    /\ UNCHANGED exceptMuse

\* connector.offSample(handler)
MuseOffSample(h) ==
    /\ muse.constructed
    /\ muse' = [muse EXCEPT !.listeners = muse.listeners \ {h}]
    /\ heard' = [heard EXCEPT !.since[h] = -1]
    /\ UNCHANGED <<timers, timerClock>>
    /\ UNCHANGED exceptMuse

\* connector.startMockStream()
MuseStart ==
    /\ muse.constructed
    /\ \E call \in {startMockStream(muse, timers, timerClock)} :
           /\ muse' = call.muse
           /\ timers' = call.timers
           /\ heard' = IF call.started
                       THEN [heard EXCEPT !.startedAt = timerClock, !.lastCall = "start"]
                       ELSE [heard EXCEPT !.lastCall = "startAgain"]
    /\ UNCHANGED timerClock
    /\ UNCHANGED exceptMuse

\* connector.stopMockStream()
MuseStop ==
    /\ muse.constructed
    /\ \E call \in {stopMockStream(muse, timers)} :
           /\ muse' = call.muse
           /\ timers' = call.timers
    /\ heard' = [heard EXCEPT !.lastCall = "stop"]
    /\ UNCHANGED timerClock
    /\ UNCHANGED exceptMuse

\* await connector.disconnect(): the method awaits nothing, so it runs in
\* one step
MuseDisconnect ==
    /\ muse.constructed
    /\ \E call \in {disconnect(muse, timers)} :
           /\ muse' = call.muse
           /\ timers' = call.timers
    /\ heard' = [heard EXCEPT !.lastCall = "disconnect"]
    /\ UNCHANGED timerClock
    /\ UNCHANGED exceptMuse

\* a millisecond passes and the callbacks then due run
MuseAdvance ==
    /\ muse.constructed
    /\ timerClock < MaxClock
    /\ timerClock' = timerClock + 1
    /\ \E run \in {RunDue(timers, muse, heard.samples, timerClock + 1)} :
           /\ timers' = run.timers
           /\ muse' = run.muse
           /\ heard' = [heard EXCEPT !.samples = run.samples]
    /\ UNCHANGED exceptMuse

NextMuse ==
    \/ MuseNew
    \/ \E h \in Handlers : MuseOnSample(h)
    \/ \E h \in Handlers : MuseOffSample(h)
    \/ MuseStart
    \/ MuseStop
    \/ MuseDisconnect
    \/ MuseAdvance

SpecMuse == Init /\ [][NextMuse]_vars

\* the stream is running and a timer interval has elapsed since its start
IntervalElapsed ==
    /\ muse.mockTimer # NullTimer
    /\ heard.startedAt >= 0
    /\ timerClock >= heard.startedAt + IntervalMs(muse.config.mockSampleRate)

\* the handler is registered, and was before the first interval ended
ListeningFromStart(h) ==
    /\ h \in muse.listeners
    /\ heard.since[h] >= 0
    /\ heard.since[h] < heard.startedAt + IntervalMs(muse.config.mockSampleRate)

\* C18: in mock mode with mockChannels = c, once a timer interval has
\* elapsed after startMockStream a registered onSample listener has received
\* at least one sample since the start, and every sample a listener
\* receives has channels.length = c
C18_MockSamplesHaveConfiguredChannels ==
    \A h \in Handlers :
        /\ (IntervalElapsed /\ ListeningFromStart(h)) =>
               \E i \in 1..Len(heard.samples[h]) :
                   heard.samples[h][i].timestamp > heard.startedAt
        /\ \A i \in 1..Len(heard.samples[h]) :
               Len(heard.samples[h][i].channels) = muse.config.mockChannels

\* a connector of two channels whose stream has run for an interval: a
\* handler registered before the start holds a sample of two channels
C18_Witness ==
    /\ IntervalElapsed
    /\ muse.config.mockChannels = 2
    /\ \E h \in Handlers :
           /\ ListeningFromStart(h)
           /\ heard.since[h] <= heard.startedAt
           /\ Len(heard.samples[h]) >= 1
           /\ Len(heard.samples[h][1].channels) = 2

\* the last of the three calls was stopMockStream or disconnect
StreamStopped == heard.lastCall \in {"stop", "disconnect"}

\* C24: at most one mock timer is active in every reachable state, also
\* after startMockStream is called while a stream is running, and from
\* stopMockStream or disconnect until the next startMockStream no timer is
\* active and no sample is delivered to any listener
C24_AtMostOneMockTimer ==
    [][/\ Cardinality(timers') <= 1
       /\ (timers' = {}) <=> (muse'.mockTimer = NullTimer)
       /\ StreamStopped' => timers' = {}
       /\ StreamStopped => heard'.samples = heard.samples]_vars

\* a stream has delivered a sample to a listener and was stopped; an
\* interval later the listener, still registered, has received nothing more
C24_Witness ==
    /\ StreamStopped
    /\ \E h \in muse.listeners :
           /\ Len(heard.samples[h]) >= 1
           /\ timerClock >= heard.samples[h][Len(heard.samples[h])].timestamp
                               + IntervalMs(muse.config.mockSampleRate)

\* startMockStream was called while the stream was running, an interval
\* has passed since, and one timer is active
C24_StartedAgain ==
    /\ heard.lastCall = "startAgain"
    /\ Cardinality(timers) = 1
    /\ \E h \in muse.listeners : Len(heard.samples[h]) >= 2

-----------------------------------------------------------------------------
(* DeepSeekIntegration.generateEmotionalDialogue and its normalization      *)
(* adapter.  A string is the sequence of its UTF-16 code units.  An         *)
(* object's content is the sequence of its entries in insertion order.      *)
(* Arrays do not occur in the values modelled.                              *)

\* an object literal's entry
Entry(key, value) == [key |-> key, value |-> value]

\* key in object
HasKey(entries, key) == \E i \in 1..Len(entries) : entries[i].key = key

\* object[key], undefined when there is no such key
GetKey(entries, key) ==
    IF HasKey(entries, key)
    THEN entries[CHOOSE i \in 1..Len(entries) : entries[i].key = key].value
    ELSE JsUndefined

\* object[key] = value: an existing key keeps its place
SetKey(entries, key, value) ==
    IF HasKey(entries, key)
    THEN [i \in 1..Len(entries) |->
             IF entries[i].key = key THEN Entry(key, value) ELSE entries[i]]
    ELSE Append(entries, Entry(key, value))

\* whether a value is truthy
Truthy(value) ==
    CASE value.type = "string" -> value.str # <<>>
      [] value.type = "number" -> ~IsNaN(value.num) /\ value.num # Zero
      [] value.type = "boolean" -> value.bool
      [] value.type = "object" -> TRUE
      [] OTHER -> FALSE

\* \s, within ASCII
IsSpace(c) == c \in {9, 10, 11, 12, 13, 32}

IsDigit(c) == 48 <= c /\ c <= 57

toUpperCase(str) ==
    [i \in 1..Len(str) |-> IF 97 <= str[i] /\ str[i] <= 122 THEN str[i] - 32 ELSE str[i]]

toLowerCase(str) ==
    [i \in 1..Len(str) |-> IF 65 <= str[i] /\ str[i] <= 90 THEN str[i] + 32 ELSE str[i]]

RECURSIVE ReplaceSpaces(_)
\* str.replace(/\s+/g, '_')
ReplaceSpaces(str) ==
    IF str = <<>> THEN <<>>
    ELSE IF IsSpace(str[1])
         THEN IF Len(str) > 1 /\ IsSpace(str[2])
              THEN ReplaceSpaces(Tail(str))
              ELSE <<95>> \o ReplaceSpaces(Tail(str))
         ELSE <<str[1]>> \o ReplaceSpaces(Tail(str))

\* [A-Z0-9_]
IsUpperWord(c) == (65 <= c /\ c <= 90) \/ IsDigit(c) \/ c = 95

\* [a-z0-9_]
IsLowerWord(c) == (97 <= c /\ c <= 122) \/ IsDigit(c) \/ c = 95

RECURSIVE TrimStart(_)
TrimStart(str) ==
    IF str # <<>> /\ IsSpace(str[1]) THEN TrimStart(Tail(str)) ELSE str

RECURSIVE TrimEnd(_)
TrimEnd(str) ==
    IF str # <<>> /\ IsSpace(str[Len(str)])
    THEN TrimEnd(SubSeq(str, 1, Len(str) - 1))
    ELSE str

\* str.trim()
trim(str) == TrimEnd(TrimStart(str))

RECURSIVE DigitsValue(_)
\* the integer a string of decimal digits denotes
DigitsValue(str) ==
    IF str = <<>> THEN 0
    ELSE 10 * DigitsValue(SubSeq(str, 1, Len(str) - 1)) + (str[Len(str)] - 48)

RECURSIVE DecimalDigits(_)
\* the decimal digits of an integer n >= 0
DecimalDigits(n) ==
    IF n < 10 THEN <<48 + n>> ELSE Append(DecimalDigits(n \div 10), 48 + (n % 10))

\* 'NaN'
S_NaN ==
    <<78, 97, 78>>

\* 'Infinity'
S_Infinity ==
    <<73, 110, 102, 105, 110, 105, 116, 121>>

\* 'true'
S_true ==
    <<116, 114, 117, 101>>

\* 'false'
S_false ==
    <<102, 97, 108, 115, 101>>

\* 'null'
S_null ==
    <<110, 117, 108, 108>>

\* 'undefined'
S_undefined ==
    <<117, 110, 100, 101, 102, 105, 110, 101, 100>>

\* '[object Object]'
S_object ==
    <<91, 111, 98, 106, 101, 99, 116, 32, 79, 98, 106, 101, 99, 116, 93>>

\* Number(value); of strings, those of decimal digits are parsed and an
\* empty or blank one is 0
NumberOf(value) ==
    CASE value.type = "number" -> value.num
      [] value.type = "string" ->
            IF trim(value.str) = <<>> THEN Zero
            ELSE IF \A i \in 1..Len(trim(value.str)) : IsDigit(trim(value.str)[i])
                 THEN Rat(DigitsValue(trim(value.str)), 1)
                 ELSE RNaN
      [] value.type = "boolean" -> IF value.bool THEN One ELSE Zero
      [] value.type = "null" -> Zero
      [] OTHER -> RNaN

\* String(x) of a number with at most two decimals
NumberString(x) ==
    IF IsNaN(x) THEN S_NaN
    ELSE IF x.d = 0 THEN (IF x.n > 0 THEN S_Infinity ELSE <<45>> \o S_Infinity)
    ELSE LET hundredths == (Abs(x.n) * 100) \div x.d
         IN  (IF x.n < 0 THEN <<45>> ELSE <<>>)
                \o DecimalDigits(hundredths \div 100)
                \o (IF hundredths % 100 = 0 THEN <<>>
                    ELSE IF hundredths % 10 = 0
                         THEN <<46, 48 + ((hundredths \div 10) % 10)>>
                         ELSE <<46, 48 + ((hundredths \div 10) % 10), 48 + (hundredths % 10)>>)

\* String(value)
StringOf(value) ==
    CASE value.type = "string" -> value.str
      [] value.type = "number" -> NumberString(value.num)
      [] value.type = "boolean" -> IF value.bool THEN S_true ELSE S_false
      [] value.type = "null" -> S_null
      [] value.type = "undefined" -> S_undefined
      [] OTHER -> S_object

\* x || fallback, for numbers
OrElse(x, fallback) == IF IsNaN(x) \/ x = Zero THEN fallback ELSE x

\* 'player_level'
S_player_level ==
    <<112, 108, 97, 121, 101, 114, 95, 108, 101, 118, 101, 108>>

\* 'level'
S_level ==
    <<108, 101, 118, 101, 108>>

\* 'experience_points'
S_experience_points ==
    <<101, 120, 112, 101, 114, 105, 101, 110, 99, 101, 95, 112, 111, 105,
      110, 116, 115>>

\* 'xp'
S_xp ==
    <<120, 112>>

\* 'health'
S_health ==
    <<104, 101, 97, 108, 116, 104>>

\* 'player_health'
S_player_health ==
    <<112, 108, 97, 121, 101, 114, 95, 104, 101, 97, 108, 116, 104>>

\* 'game_phase'
S_game_phase ==
    <<103, 97, 109, 101, 95, 112, 104, 97, 115, 101>>

\* 'phase'
S_phase ==
    <<112, 104, 97, 115, 101>>

\* 'location'
S_location ==
    <<108, 111, 99, 97, 116, 105, 111, 110>>

\* 'current_location'
S_current_location ==
    <<99, 117, 114, 114, 101, 110, 116, 95, 108, 111, 99, 97, 116, 105, 111,
      110>>

RECURSIVE NormalizeEntries(_, _, _)
RECURSIVE normalizeValue(_)

\* DeepSeekNormalizationAdapter.normalizeOptionalFields
normalizeOptionalFields(fields) == NormalizeEntries(fields, 1, <<>>)

\* DeepSeekNormalizationAdapter.normalizeValue
normalizeValue(value) ==
    CASE value.type = "string" -> JsString(trim(value.str))
      [] value.type = "number" -> value
      [] value.type = "boolean" -> value
      [] value.type = "object" -> JsObject(normalizeOptionalFields(value.entries))
      [] OTHER -> JsString(StringOf(value))

\* the for loop of normalizeOptionalFields from the i-th entry on
NormalizeEntries(fields, i, normalized) ==
    IF i > Len(fields) THEN normalized
    ELSE LET value == fields[i].value
             normalizedKey == ReplaceSpaces(toLowerCase(fields[i].key))
         IN  NormalizeEntries(fields, i + 1,
                IF normalizedKey = S_player_level \/ normalizedKey = S_level
                THEN SetKey(normalized, S_player_level,
                            JsNumber(MathMax(One, MathFloor(OrElse(NumberOf(value), One)))))
                ELSE IF normalizedKey = S_experience_points \/ normalizedKey = S_xp
                THEN SetKey(normalized, S_experience_points,
                            JsNumber(MathMax(Zero, OrElse(NumberOf(value), Zero))))
                ELSE IF normalizedKey = S_health \/ normalizedKey = S_player_health
                THEN SetKey(normalized, S_player_health,
                            JsNumber(MathMax(Zero, OrElse(NumberOf(value), Rat(100, 1)))))
                ELSE IF normalizedKey = S_game_phase \/ normalizedKey = S_phase
                THEN SetKey(normalized, S_game_phase, JsString(toLowerCase(StringOf(value))))
                ELSE IF normalizedKey = S_location \/ normalizedKey = S_current_location
                THEN SetKey(normalized, S_current_location, JsString(trim(StringOf(value))))
                ELSE SetKey(normalized, normalizedKey, normalizeValue(value)))

\* ClampIntensity without the upper bound
ClampIntensity_NoUpper(intensity) ==
    MathMax(Zero, OrElse(NumberOf(intensity), Zero))

\* Math.max(0, Math.min(1, Number(intensity) || 0))
ClampIntensity(intensity) ==
    MathMax(Zero, MathMin(One, OrElse(NumberOf(intensity), Zero)))

\* The emotion object as normalizeContext leaves it
NormalizeEmotion(given) ==
    [primary |->
        IF given.primary # <<>>
        THEN SelectSeq(ReplaceSpaces(toUpperCase(given.primary)), IsUpperWord)
        ELSE given.primary,
     intensity |->
        IF given.intensity # JsUndefined
        THEN JsNumber(ClampIntensity(given.intensity))
        ELSE given.intensity]

\* DeepSeekNormalizationAdapter.normalizeContext: the context returned and
\* the caller's context after the call.  { ...context } copies the
\* references, so the emotion object assigned to is the caller's.
normalizeContext(context) ==
    LET shared == NormalizeEmotion(context.emotion)
    IN  [normalized |->
            [emotion |-> shared,
             storyContext |-> context.storyContext,
             optionalFields |->
                IF Truthy(context.optionalFields)
                THEN JsObject(normalizeOptionalFields(context.optionalFields.entries))
                ELSE context.optionalFields],
         context |-> [context EXCEPT !.emotion = shared]]

\* 'FOCUSED_HIGH'
S_FOCUSED_HIGH ==
    <<70, 79, 67, 85, 83, 69, 68, 95, 72, 73, 71, 72>>

\* 'RELAXED_CALM'
S_RELAXED_CALM ==
    <<82, 69, 76, 65, 88, 69, 68, 95, 67, 65, 76, 77>>

\* 'ANXIOUS_STRESSED'
S_ANXIOUS_STRESSED ==
    <<65, 78, 88, 73, 79, 85, 83, 95, 83, 84, 82, 69, 83, 83, 69, 68>>

\* 'CURIOUS_INTERESTED'
S_CURIOUS_INTERESTED ==
    <<67, 85, 82, 73, 79, 85, 83, 95, 73, 78, 84, 69, 82, 69, 83, 84, 69,
      68>>

\* 'Stay focused; your resolve shapes the path ahead.'
FocusedDialogue ==
    <<83, 116, 97, 121, 32, 102, 111, 99, 117, 115, 101, 100, 59, 32, 121,
      111, 117, 114, 32, 114, 101, 115, 111, 108, 118, 101, 32, 115, 104,
      97, 112, 101, 115, 32, 116, 104, 101, 32, 112, 97, 116, 104, 32, 97,
      104, 101, 97, 100, 46>>

\* 'Breathe easy; the world unfolds at your pace.'
RelaxedDialogue ==
    <<66, 114, 101, 97, 116, 104, 101, 32, 101, 97, 115, 121, 59, 32, 116,
      104, 101, 32, 119, 111, 114, 108, 100, 32, 117, 110, 102, 111, 108,
      100, 115, 32, 97, 116, 32, 121, 111, 117, 114, 32, 112, 97, 99, 101,
      46>>

\* 'You are safe; take a moment and steady yourself.'
AnxiousDialogue ==
    <<89, 111, 117, 32, 97, 114, 101, 32, 115, 97, 102, 101, 59, 32, 116,
      97, 107, 101, 32, 97, 32, 109, 111, 109, 101, 110, 116, 32, 97, 110,
      100, 32, 115, 116, 101, 97, 100, 121, 32, 121, 111, 117, 114, 115,
      101, 108, 102, 46>>

\* 'Lean into discovery; every question opens a new door.'
CuriousDialogue ==
    <<76, 101, 97, 110, 32, 105, 110, 116, 111, 32, 100, 105, 115, 99, 111,
      118, 101, 114, 121, 59, 32, 101, 118, 101, 114, 121, 32, 113, 117,
      101, 115, 116, 105, 111, 110, 32, 111, 112, 101, 110, 115, 32, 97, 32,
      110, 101, 119, 32, 100, 111, 111, 114, 46>>

\* 'Let the narrative meet you where you are.'
NeutralDialogue ==
    <<76, 101, 116, 32, 116, 104, 101, 32, 110, 97, 114, 114, 97, 116, 105,
      118, 101, 32, 109, 101, 101, 116, 32, 121, 111, 117, 32, 119, 104,
      101, 114, 101, 32, 121, 111, 117, 32, 97, 114, 101, 46>>

\* 'encouraging'
S_encouraging ==
    <<101, 110, 99, 111, 117, 114, 97, 103, 105, 110, 103>>

\* 'calm'
S_calm ==
    <<99, 97, 108, 109>>

\* 'reassuring'
S_reassuring ==
    <<114, 101, 97, 115, 115, 117, 114, 105, 110, 103>>

\* 'inquisitive'
S_inquisitive ==
    <<105, 110, 113, 117, 105, 115, 105, 116, 105, 118, 101>>

\* 'neutral'
S_neutral ==
    <<110, 101, 117, 116, 114, 97, 108>>

\* 'boost_focus'
S_boost_focus ==
    <<98, 111, 111, 115, 116, 95, 102, 111, 99, 117, 115>>

\* 'maintain_flow'
S_maintain_flow ==
    <<109, 97, 105, 110, 116, 97, 105, 110, 95, 102, 108, 111, 119>>

\* 'reduce_stress'
S_reduce_stress ==
    <<114, 101, 100, 117, 99, 101, 95, 115, 116, 114, 101, 115, 115>>

\* 'spark_curiosity'
S_spark_curiosity ==
    <<115, 112, 97, 114, 107, 95, 99, 117, 114, 105, 111, 115, 105, 116,
      121>>

\* 'stabilize'
S_stabilize ==
    <<115, 116, 97, 98, 105, 108, 105, 122, 101>>

\* 'fallback'
S_fallback ==
    <<102, 97, 108, 108, 98, 97, 99, 107>>

\* 'contextFields'
S_contextFields ==
    <<99, 111, 110, 116, 101, 120, 116, 70, 105, 101, 108, 100, 115>>

\* 'contextfields'
S_contextfields ==
    <<99, 111, 110, 116, 101, 120, 116, 102, 105, 101, 108, 100, 115>>

\* 'timestamp'
S_timestamp ==
    <<116, 105, 109, 101, 115, 116, 97, 109, 112>>

\* 'metadata'
S_metadata ==
    <<109, 101, 116, 97, 100, 97, 116, 97>>

\* 'confidence'
S_confidence ==
    <<99, 111, 110, 102, 105, 100, 101, 110, 99, 101>>

\* 'suggestions'
S_suggestions ==
    <<115, 117, 103, 103, 101, 115, 116, 105, 111, 110, 115>>

\* 'responseTime'
S_responseTime ==
    <<114, 101, 115, 112, 111, 110, 115, 101, 84, 105, 109, 101>>

\* 'processingTime'
S_processingTime ==
    <<112, 114, 111, 99, 101, 115, 115, 105, 110, 103, 84, 105, 109, 101>>

\* 'model'
S_model ==
    <<109, 111, 100, 101, 108>>

\* DeepSeekIntegration.getBaseFallbackResponse
getBaseFallbackResponse(emotionPrimary) ==
    CASE emotionPrimary = S_FOCUSED_HIGH ->
            Response(JsString(FocusedDialogue), JsString(S_encouraging),
                     JsString(S_boost_focus), JsUndefined)
      [] emotionPrimary = S_RELAXED_CALM ->
            Response(JsString(RelaxedDialogue), JsString(S_calm),
                     JsString(S_maintain_flow), JsUndefined)
      [] emotionPrimary = S_ANXIOUS_STRESSED ->
            Response(JsString(AnxiousDialogue), JsString(S_reassuring),
                     JsString(S_reduce_stress), JsUndefined)
      [] emotionPrimary = S_CURIOUS_INTERESTED ->
            Response(JsString(CuriousDialogue), JsString(S_inquisitive),
                     JsString(S_spark_curiosity), JsUndefined)
      [] OTHER ->
            Response(JsString(NeutralDialogue), JsString(S_neutral),
                     JsString(S_stabilize), JsUndefined)

\* DeepSeekIntegration.getFallbackResponse, Date.now() being time
getFallbackResponse(context, time) ==
    IF Truthy(context.optionalFields)
    THEN [getBaseFallbackResponse(context.emotion.primary) EXCEPT
             !.optionalFields =
                 JsObject(<< Entry(S_fallback, JsBoolean(TRUE)),
                             Entry(S_contextFields, context.optionalFields),
                             Entry(S_timestamp, JsNumber(Rat(time, 1))) >>)]
    ELSE getBaseFallbackResponse(context.emotion.primary)

\* a call that returned a value
Returned(value) == [threw |-> FALSE, value |-> value]

\* a call that threw
Thrown == [threw |-> TRUE, value |-> NoResponse]

\* preservedFields.includes(key)
PreservedField(key) ==
    key \in {S_metadata, S_confidence, S_suggestions, S_responseTime,
             S_processingTime, S_model}

RECURSIVE NormalizeResponseEntries(_, _, _)
\* the for loop of normalizeResponseOptionalFields from the i-th entry on
NormalizeResponseEntries(fields, i, normalized) ==
    IF i > Len(fields) THEN normalized
    ELSE NormalizeResponseEntries(fields, i + 1,
            IF PreservedField(fields[i].key)
            THEN SetKey(normalized, fields[i].key, fields[i].value)
            ELSE SetKey(normalized, ReplaceSpaces(toLowerCase(fields[i].key)),
                        normalizeValue(fields[i].value)))

\* DeepSeekNormalizationAdapter.normalizeResponseOptionalFields
normalizeResponseOptionalFields(fields) == NormalizeResponseEntries(fields, 1, <<>>)

\* DeepSeekNormalizationAdapter.normalizeResponse; toLowerCase of a truthy
\* tone or impact that is not a string throws
normalizeResponse(response) ==
    IF \/ Truthy(response.tone) /\ response.tone.type # "string"
       \/ Truthy(response.impact) /\ response.impact.type # "string"
    THEN Thrown
    ELSE Returned(
           [dialogue |->
               IF ~Truthy(response.dialogue) \/ response.dialogue.type # "string"
               THEN JsString(NeutralDialogue)
               ELSE JsString(trim(response.dialogue.str)),
            tone |->
               IF Truthy(response.tone)
               THEN JsString(toLowerCase(response.tone.str))
               ELSE JsString(S_neutral),
            impact |->
               IF Truthy(response.impact)
               THEN JsString(SelectSeq(ReplaceSpaces(toLowerCase(response.impact.str)),
                                       IsLowerWord))
               ELSE JsString(S_stabilize),
            optionalFields |->
               IF Truthy(response.optionalFields)
               THEN JsObject(normalizeResponseOptionalFields(response.optionalFields.entries))
               ELSE response.optionalFields])

\* x || fallback, for values
Or(value, fallback) == IF Truthy(value) THEN value ELSE fallback

\* the optionalFields parseNarrativeResponse collects from a reply
ReplyOptionalFields(json) ==
    (IF Truthy(json.metadata) THEN <<Entry(S_metadata, json.metadata)>> ELSE <<>>)
    \o (IF Truthy(json.confidence) THEN <<Entry(S_confidence, json.confidence)>> ELSE <<>>)
    \o (IF Truthy(json.suggestions) THEN <<Entry(S_suggestions, json.suggestions)>> ELSE <<>>)

\* DeepSeekIntegration.parseNarrativeResponse.  json.content stands for
\* json.choices?.[0]?.message?.content.  Reading choices of null throws, and
\* so does trim of a dialogue that is not a string.
parseNarrativeResponse(json) ==
    IF json.isNull THEN Thrown
    ELSE IF Or(json.content, JsString(FocusedDialogue)).type # "string" THEN Thrown
    ELSE Returned(
           Response(JsString(trim(Or(json.content, JsString(FocusedDialogue)).str)),
                    Or(json.tone, JsString(S_encouraging)),
                    Or(json.impact, JsString(S_boost_focus)),
                    IF Len(ReplyOptionalFields(json)) > 0
                    THEN JsObject(ReplyOptionalFields(json))
                    ELSE JsUndefined))

\* the try block from the reply's JSON on
HandleReply(json) ==
    IF parseNarrativeResponse(json).threw
    THEN Thrown
    ELSE normalizeResponse(parseNarrativeResponse(json).value)

\* OnFailure that lets the error through
OnFailure_Rethrows(normalizedContext, time) == Thrown

\* the catch block, and the branch taken without an API key
OnFailure(normalizedContext, time) ==
    normalizeResponse(getFallbackResponse(normalizedContext, time))

\* 'anxious'
S_anxious ==
    <<97, 110, 120, 105, 111, 117, 115>>

\* 'anxious stressed'
S_anxious_stressed ==
    <<97, 110, 120, 105, 111, 117, 115, 32, 115, 116, 114, 101, 115, 115,
      101, 100>>

\* 'Critical boss fight'
S_story ==
    <<67, 114, 105, 116, 105, 99, 97, 108, 32, 98, 111, 115, 115, 32, 102,
      105, 103, 104, 116>>

\* 'bossName'
S_bossName ==
    <<98, 111, 115, 115, 78, 97, 109, 101>>

\* 'Ancient Dragon'
S_AncientDragon ==
    <<65, 110, 99, 105, 101, 110, 116, 32, 68, 114, 97, 103, 111, 110>>

\* 'playerHealth'
S_playerHealth ==
    <<112, 108, 97, 121, 101, 114, 72, 101, 97, 108, 116, 104>>

\* 'exploration_level'
S_exploration_level ==
    <<101, 120, 112, 108, 111, 114, 97, 116, 105, 111, 110, 95, 108, 101,
      118, 101, 108>>

\* 'Player Level'
S_PlayerLevel ==
    <<80, 108, 97, 121, 101, 114, 32, 76, 101, 118, 101, 108>>

\* '  Focus your energy!  '
S_FocusYourEnergy ==
    <<32, 32, 70, 111, 99, 117, 115, 32, 121, 111, 117, 114, 32, 101, 110,
      101, 114, 103, 121, 33, 32, 32>>

\* 'BATTLE_READY'
S_BATTLE_READY ==
    <<66, 65, 84, 84, 76, 69, 95, 82, 69, 65, 68, 89>>

\* 'Increase Combat Focus'
S_IncreaseCombatFocus ==
    <<73, 110, 99, 114, 101, 97, 115, 101, 32, 67, 111, 109, 98, 97, 116,
      32, 70, 111, 99, 117, 115>>

\* 'Take a deep breath.'
S_TakeADeepBreath ==
    <<84, 97, 107, 101, 32, 97, 32, 100, 101, 101, 112, 32, 98, 114, 101,
      97, 116, 104, 46>>

\* emotion.primary as callers give it
Primaries == {S_anxious, S_anxious_stressed, S_FOCUSED_HIGH}

\* emotion.intensity as callers give it: the tests' values, and NaN
Intensities ==
    {JsNumber(Rat(-1, 1)), JsNumber(Zero), JsNumber(Rat(1, 2)), JsNumber(Rat(9, 10)),
     JsNumber(One), JsNumber(Rat(3, 2)), JsNumber(RNaN)}

\* optionalFields as callers give them: none, none in an object, camel-case
\* keys, a key already normalized, and keys the adapter knows
OptionalFields ==
    {JsUndefined,
     JsObject(<<>>),
     JsObject(<< Entry(S_bossName, JsString(S_AncientDragon)),
                 Entry(S_playerHealth, JsNumber(Rat(250, 1))) >>),
     JsObject(<< Entry(S_exploration_level, JsNumber(Rat(3, 1))) >>),
     JsObject(<< Entry(S_PlayerLevel, JsNumber(Rat(5, 1))),
                 Entry(S_health, JsNumber(Rat(85, 1))) >>)}

Contexts ==
    {[emotion |-> [primary |-> p, intensity |-> x],
      storyContext |-> S_story,
      optionalFields |-> o] : p \in Primaries, x \in Intensities, o \in OptionalFields}

\* the JSON of a reply with nothing in it, {}
EmptyReply == NoReply

\* replies the handling of which throws: null, a content that is a number,
\* a tone that is a number
BadReplies ==
    {[EmptyReply EXCEPT !.isNull = TRUE],
     [EmptyReply EXCEPT !.content = JsNumber(Rat(5, 1))],
     [EmptyReply EXCEPT !.content = JsString(S_TakeADeepBreath),
                        !.tone = JsNumber(Rat(5, 1))]}

\* the JSON the API replies with
Replies ==
    {EmptyReply,
     [EmptyReply EXCEPT !.content = JsString(S_TakeADeepBreath)],
     [EmptyReply EXCEPT !.content = JsString(S_FocusYourEnergy),
                        !.tone = JsString(S_BATTLE_READY),
                        !.impact = JsString(S_IncreaseCombatFocus),
                        !.confidence = JsNumber(Rat(85, 100))]}
    \cup BadReplies

\* the promise settles: resolved with the value returned, rejected on a throw
Settle(call, outcome, failure, fellBack) ==
    [call EXCEPT !.pc = "settled",
                 !.failure = failure,
                 !.fellBack = fellBack,
                 !.settled = IF outcome.threw THEN "rejected" ELSE "resolved",
                 !.response = outcome.value]

\* a caller constructs the integration, with an API key or without, and
\* holds a context
DsSupply ==
    /\ dialogueCall.pc = "idle"
    /\ \E c \in Contexts, key \in BOOLEAN :
           /\ callerContext' = c
           /\ dialogueCall' = [NoDialogue EXCEPT !.pc = "held", !.apiKey = key, !.given = c]
    /\ UNCHANGED exceptDeepSeek

\* normalized = adapter.normalizeContext(context)
DsNormalize ==
    /\ dialogueCall.pc = "held"
    /\ \E call \in {normalizeContext(callerContext)} :
           /\ callerContext' = call.context
           /\ dialogueCall' = [dialogueCall EXCEPT !.pc = "normalized",
                                           !.normalized = call.normalized]
    /\ UNCHANGED exceptDeepSeek

\* integration.generateEmotionalDialogue(context), up to the first await:
\* without an API key the promise resolves with the fallback, with one the
\* request is issued
DsCall ==
    /\ dialogueCall.pc = "held"
    /\ \E call \in {normalizeContext(callerContext)} :
           /\ callerContext' = call.context
           /\ dialogueCall' =
                IF ~dialogueCall.apiKey
                THEN Settle([dialogueCall EXCEPT !.normalized = call.normalized],
                            OnFailure(call.normalized, now), "none", TRUE)
                ELSE [dialogueCall EXCEPT !.pc = "fetching",
                                      !.normalized = call.normalized,
                                      !.requests = dialogueCall.requests + 1]
    /\ UNCHANGED exceptDeepSeek

\* await fetch(...): the request fails, which the catch block handles, or a
\* response arrives
DsFetchSettles ==
    /\ dialogueCall.pc = "fetching"
    /\ \E ok \in BOOLEAN :
           dialogueCall' =
              IF ok THEN [dialogueCall EXCEPT !.pc = "reading"]
              ELSE Settle(dialogueCall, OnFailure(dialogueCall.normalized, now), "fetch", TRUE)
    /\ UNCHANGED callerContext
    /\ UNCHANGED exceptDeepSeek

\* await response.json() fails, which the catch block handles
DsJsonFails ==
    /\ dialogueCall.pc = "reading"
    /\ dialogueCall' = Settle(dialogueCall, OnFailure(dialogueCall.normalized, now), "json", TRUE)
    /\ UNCHANGED callerContext
    /\ UNCHANGED exceptDeepSeek

\* await response.json() returns the reply's JSON, which is parsed and
\* normalized; a throw in either is handled by the catch block
DsReply ==
    /\ dialogueCall.pc = "reading"
    /\ \E json \in Replies :
         \E handled \in {HandleReply(json)} :
           dialogueCall' =
              IF handled.threw
              THEN Settle([dialogueCall EXCEPT !.reply = json],
                          OnFailure(dialogueCall.normalized, now), "handling", TRUE)
              ELSE Settle([dialogueCall EXCEPT !.reply = json], handled, "none", FALSE)
    /\ UNCHANGED callerContext
    /\ UNCHANGED exceptDeepSeek

\* the caller drops the context and the response
DsRelease ==
    /\ dialogueCall.pc \in {"normalized", "settled"}
    /\ callerContext' = NoContext
    /\ dialogueCall' = NoDialogue
    /\ UNCHANGED exceptDeepSeek

NextDeepSeek ==
    \/ DsSupply
    \/ DsNormalize
    \/ DsCall
    \/ DsFetchSettles
    \/ DsJsonFails
    \/ DsReply
    \/ DsRelease

SpecDeepSeek == Init /\ [][NextDeepSeek]_vars

\* the promise of generateEmotionalDialogue has settled
Settled == dialogueCall.pc = "settled"

\* dialogue, tone and impact are strings
IsNarrativeResponse(response) ==
    /\ response.dialogue.type = "string"
    /\ response.tone.type = "string"
    /\ response.impact.type = "string"

\* the response is the fallback for the emotion of the normalized context
IsFallbackResponse(response) ==
    LET base == getBaseFallbackResponse(dialogueCall.normalized.emotion.primary)
    IN  /\ response.dialogue = base.dialogue
        /\ response.tone = base.tone
        /\ response.impact = base.impact

\* the request failed, or the handling of its reply threw
RequestOrHandlingThrew ==
    \/ dialogueCall.failure \in {"fetch", "json"}
    \/ dialogueCall.reply \in BadReplies

\* C14: generateEmotionalDialogue always resolves with a NarrativeResponse
\* and never rejects; without an API key it returns the fallback response
\* and issues no request; when the request or the handling of its reply
\* throws it returns the fallback response; and when the context carried
\* optionalFields the fallback's optionalFields has fallback = true
C14_ResolvesWithFallbackOnFailure ==
    Settled =>
        /\ dialogueCall.settled = "resolved"
        /\ IsNarrativeResponse(dialogueCall.response)
        /\ ~dialogueCall.apiKey =>
              /\ dialogueCall.requests = 0
              /\ IsFallbackResponse(dialogueCall.response)
        /\ RequestOrHandlingThrew => IsFallbackResponse(dialogueCall.response)
        /\ ((~dialogueCall.apiKey \/ RequestOrHandlingThrew)
               /\ dialogueCall.given.optionalFields.type = "object") =>
              /\ dialogueCall.response.optionalFields.type = "object"
              /\ GetKey(dialogueCall.response.optionalFields.entries, S_fallback) = JsBoolean(TRUE)

\* a call with an API key whose reply's tone is a number, which throws in
\* normalizeResponse: resolved with the fallback, fallback = true
C14_Witness ==
    /\ Settled
    /\ dialogueCall.apiKey
    /\ dialogueCall.requests = 1
    /\ dialogueCall.reply \in BadReplies
    /\ dialogueCall.reply.tone.type = "number"
    /\ dialogueCall.settled = "resolved"
    /\ IsFallbackResponse(dialogueCall.response)
    /\ dialogueCall.given.optionalFields.type = "object"
    /\ GetKey(dialogueCall.response.optionalFields.entries, S_fallback) = JsBoolean(TRUE)

\* C15: in a fallback response optionalFields.contextfields equals the
\* optionalFields the caller passed in, key names and values unchanged
C15_ContextFieldsAsPassed ==
    (Settled /\ dialogueCall.fellBack /\ dialogueCall.given.optionalFields.type = "object") =>
        GetKey(dialogueCall.response.optionalFields.entries, S_contextfields)
            = dialogueCall.given.optionalFields

\* the fallback for { bossName, playerHealth }: contextfields holds the
\* keys bossname and playerhealth
C15_KeysLowerCased ==
    /\ Settled
    /\ dialogueCall.fellBack
    /\ HasKey(dialogueCall.given.optionalFields.entries, S_bossName)
    /\ GetKey(dialogueCall.response.optionalFields.entries, S_contextfields) =
          JsObject(<< Entry(toLowerCase(S_bossName), JsString(S_AncientDragon)),
                      Entry(toLowerCase(S_playerHealth), JsNumber(Rat(250, 1))) >>)

\* normalizeContext has returned, called directly or by
\* generateEmotionalDialogue
Normalized == dialogueCall.pc \in {"normalized", "fetching", "reading", "settled"}

\* C17: normalizeContext returns an intensity clamped to [0,1]: an input in
\* [0,1] is returned unchanged, an input below 0 becomes 0, an input above 1
\* becomes 1
C17_IntensityClamped ==
    (Normalized /\ ~IsNaN(dialogueCall.given.emotion.intensity.num)) =>
        LET x == dialogueCall.given.emotion.intensity.num
            y == dialogueCall.normalized.emotion.intensity
        IN  /\ y.type = "number"
            /\ RLe(Zero, y.num) /\ RLe(y.num, One)
            /\ (RLe(Zero, x) /\ RLe(x, One)) => y.num = x
            /\ RLt(x, Zero) => y.num = Zero
            /\ RGt(x, One) => y.num = One

\* normalizeContext called on an intensity of 1.5 has returned 1
C17_Witness ==
    /\ dialogueCall.pc = "normalized"
    /\ dialogueCall.given.emotion.intensity = JsNumber(Rat(3, 2))
    /\ dialogueCall.normalized.emotion.intensity = JsNumber(One)

\* C30: normalizeContext leaves the caller's context unchanged: after the
\* call, made directly or through generateEmotionalDialogue, the caller's
\* emotion.primary, emotion.intensity and optionalFields hold the values they
\* held before
C30_CallerContextUnchanged ==
    Normalized =>
        /\ callerContext.emotion.primary = dialogueCall.given.emotion.primary
        /\ callerContext.emotion.intensity = dialogueCall.given.emotion.intensity
        /\ callerContext.optionalFields = dialogueCall.given.optionalFields

\* the caller's emotion object holds the normalized values after the call,
\* the caller's optionalFields the ones passed
C30_CallerEmotionOverwritten ==
    Normalized =>
        /\ callerContext.emotion = dialogueCall.normalized.emotion
        /\ callerContext.optionalFields = dialogueCall.given.optionalFields
        /\ callerContext.storyContext = dialogueCall.given.storyContext

\* generateEmotionalDialogue called with 'anxious' at 1.5 has left the
\* caller holding 'ANXIOUS' at 1
C30_Witness ==
    /\ dialogueCall.pc = "settled"
    /\ dialogueCall.given.emotion.primary = S_anxious
    /\ dialogueCall.given.emotion.intensity = JsNumber(Rat(3, 2))
    /\ callerContext.emotion.primary = toUpperCase(S_anxious)
    /\ callerContext.emotion.intensity = JsNumber(One)

-----------------------------------------------------------------------------
(* PerformanceMonitor and the RealtimeDashboard it publishes to.            *)

\* Bounds of the monitor's callers
MaxRecords == 3   \* recordNarrativeGeneration calls
MaxErrors == 3    \* recordAPIError calls

\* dashboard.updatePerformanceMetrics(update):
\* latestMetrics = { ...latestMetrics, ...update }
updatePerformanceMetrics(latest, update) ==
    [narrativeGeneration |-> latest.narrativeGeneration \/ update.narrativeGeneration,
     apiErrors |-> IF update.apiErrors.present THEN update.apiErrors ELSE latest.apiErrors]

\* recordNarrativeGeneration that counts a cached response as an API call too
recordNarrativeGeneration_CountsBoth(metrics, duration, wasCached) ==
    LET before == metrics.narrativeGeneration
    IN  [metrics EXCEPT !.narrativeGeneration =
            [count |-> before.count + 1,
             totalTime |-> before.totalTime + duration,
             averageTime |-> Rat(before.totalTime + duration, before.count + 1),
             lastTime |-> duration,
             apiCalls |-> before.apiCalls + 1,
             cacheHits |-> IF wasCached THEN before.cacheHits + 1 ELSE before.cacheHits]]

\* recordNarrativeGeneration(duration, wasCached): this.metrics after it
recordNarrativeGeneration(metrics, duration, wasCached) ==
    LET before == metrics.narrativeGeneration
    IN  [metrics EXCEPT !.narrativeGeneration =
            [count |-> before.count + 1,
             totalTime |-> before.totalTime + duration,
             averageTime |-> Rat(before.totalTime + duration, before.count + 1),
             lastTime |-> duration,
             apiCalls |-> IF wasCached THEN before.apiCalls ELSE before.apiCalls + 1,
             cacheHits |-> IF wasCached THEN before.cacheHits + 1 ELSE before.cacheHits]]

\* recordAPIError(errorType): the update it publishes.  this.metrics is
\* read and not written.
recordAPIError(metrics, errorType, clock) ==
    LET current == IF metrics.apiErrors.defined /\ metrics.apiErrors.count # 0
                   THEN metrics.apiErrors.count ELSE 0
    IN  [narrativeGeneration |-> FALSE,
         apiErrors |-> [present |-> TRUE, type |-> errorType, timestamp |-> clock,
                        count |-> current + 1]]

\* durations in ms as the callers measure them
Durations == {0, 120, 250}

ErrorTypes == {"timeout", "rate_limit"}

\* monitor.recordNarrativeGeneration(duration, wasCached); wasCached left
\* out is false
MonitorRecordNarrative ==
    /\ Len(recorded.durations) < MaxRecords
    /\ \E duration \in Durations, wasCached \in BOOLEAN :
          /\ monitor' = recordNarrativeGeneration(monitor, duration, wasCached)
          /\ latestMetrics' = updatePerformanceMetrics(latestMetrics,
                                 [narrativeGeneration |-> TRUE, apiErrors |-> NoApiErrors])
          /\ recorded' = [recorded EXCEPT !.durations = Append(@, duration)]
    /\ UNCHANGED exceptMonitor

\* monitor.recordAPIError(errorType)
MonitorRecordError ==
    /\ recorded.errors < MaxErrors
    /\ \E errorType \in ErrorTypes :
          latestMetrics' = updatePerformanceMetrics(latestMetrics,
                              recordAPIError(monitor, errorType, now))
    /\ recorded' = [recorded EXCEPT !.errors = @ + 1]
    /\ UNCHANGED monitor
    /\ UNCHANGED exceptMonitor

NextMonitor == MonitorRecordNarrative \/ MonitorRecordError

SpecMonitor == Init /\ [][NextMonitor]_vars

RECURSIVE SumOf(_)
\* the sum of a sequence of numbers
SumOf(numbers) ==
    IF numbers = <<>> THEN 0 ELSE SumOf(SubSeq(numbers, 1, Len(numbers) - 1)) + numbers[Len(numbers)]

\* C25: after any sequence of recordNarrativeGeneration calls,
\* narrativeGeneration.count = apiCalls + cacheHits and totalTime is the sum
\* of all recorded durations
C25_CountIsApiCallsPlusCacheHits ==
    LET narrative == monitor.narrativeGeneration
    IN  /\ narrative.count = narrative.apiCalls + narrative.cacheHits
        /\ narrative.count = Len(recorded.durations)
        /\ narrative.totalTime = SumOf(recorded.durations)

\* three calls recorded, cached and not, with durations that are not all 0
C25_Witness ==
    /\ Len(recorded.durations) = 3
    /\ monitor.narrativeGeneration.cacheHits >= 1
    /\ monitor.narrativeGeneration.apiCalls >= 1
    /\ monitor.narrativeGeneration.totalTime > 0
    /\ latestMetrics.narrativeGeneration

\* C26: the k-th recordAPIError call on a monitor publishes apiErrors.count
\* = k
C26_PublishedCountIsNumberOfErrors ==
    latestMetrics.apiErrors.present => latestMetrics.apiErrors.count = recorded.errors

\* every recordAPIError call publishes apiErrors.count = 1
C26_PublishedCountIsOne ==
    latestMetrics.apiErrors.present => latestMetrics.apiErrors.count = 1

\* the second recordAPIError call has published count = 1
C26_SecondErrorPublishesOne ==
    /\ recorded.errors = 2
    /\ latestMetrics.apiErrors.present
    /\ latestMetrics.apiErrors.count = 1

=============================================================================
